---- MODULE Spec2Model ----
(***************************************************************************)
(* Background-check request lifecycle of the PropertyVet backend:          *)
(* quota ledger, check record store, stage simulator, MCP orchestration    *)
(* client and result normaliser (backend/server.js, mcp_integration.js),   *)
(* and the RTW integration of the simple server variant.                   *)
(* Time is counted in seconds (the source's millisecond delays / 1000).    *)
(***************************************************************************)
EXTENDS Integers, Sequences, FiniteSets, TLC

\* ------------------------------------------------------------------ bounds
SubmitWindow == 1      \* submissions arrive up to this time
MaxLatency == 1        \* the bridge answers (or the request fails) within this
MaxRequests == 2       \* records created in a behaviour of Spec
MaxQuotaRequests == 2  \* records created in a behaviour of SpecQuota
MaxMaskRequests == 2   \* records created in a behaviour of SpecMask
MaxCallbackRequests == 1  \* records created in a behaviour of SpecCallback
MaxReadRequests == 1   \* records created in a behaviour of SpecRead
MaxDeliveries == 2     \* deliveries of one notification payload
MaxRtwRequests == 2    \* submissions received by the simple server
MaxSimpleRequests == 1 \* records created in a behaviour of SpecSimple
MaxPollRequests == 2   \* records created in a behaviour of SpecPoll
MaxTrialRequests == 6  \* records a behaviour of SpecTrial may create
MaxPlanRequests == 2   \* records created in a behaviour of SpecPlans
MaxRaceRequests == 2   \* records created in a behaviour of SpecRace
MaxHealthRequests == 2 \* records created in a behaviour of SpecHealth
MaxAckRequests == 2    \* records created in a behaviour of SpecAck
MaxListRequests == 2   \* records created in a behaviour of SpecList
MaxFailureRequests == 1 \* records created in a behaviour of SpecFailure
MaxNormalRequests == 1 \* records created in a behaviour of SpecNormal
MaxRiskScore == 900    \* scores whose risk level is derived reach from 0 to this
ScoreExcess == 50      \* external scores reach this far below 0 and above 100
MaxPasses == 11        \* requests the endpoint rate limiter lets through in a behaviour
MaxWindows == 2        \* the clock of the rate limiter reaches this many windows
MaxMonitorRequests == 3 \* records created in a behaviour of SpecMonitor
MaxDispatchRequests == 2 \* records created in a behaviour of SpecDispatch
MaxFailures == 11      \* failed authentications recorded for an address
MaxDrift == 2          \* the clock reaches this many seconds past the hour of a block

\* ------------------------------------------------------- program constants
TrialChecks == 5
StarterChecks == 50
ProfessionalChecks == 200
Unlimited == 0 - 1
StartDelay == 2
StepDelays == <<2, 5, 3, 4, 1>>
ScoreBase == 650
ScoreSpan == 200
LowRiskMin == 750
MediumRiskMin == 650
DefaultScore == 650
MinScore == 300
MaxScore == 850
FallbackScoreBase == 650
FallbackScoreSpan == 200
FallbackLowRiskMin == 750
FallbackMediumRiskMin == 650
FallbackEta == 900
BackgroundCheckWindow == 60
BackgroundCheckMax == 10
WorkflowWindow == 60
WorkflowMax == 20
StatusWindow == 60
StatusMax == 60
LoginWindow == 900
LoginMax == 5
OneHour == 3600
BruteForceMax == 10

\* ----------------------------------------------------------------- values
Undefined == "undefined"
NoNumber == 0 - 1          \* an absent / null numeric field
Users == {"u1", "u2"}

\* JSON values by their typeof: numbers, strings, null, and an absent field
JsonNumber(n) == [type |-> "number", value |-> n]
JsonString(str) == [type |-> "string", value |-> str]
JsonNull == [type |-> "null"]
NoScore == [type |-> "undefined"]
Uuids == <<"uuid1", "uuid2", "uuid3", "uuid4", "uuid5", "uuid6", "uuid7", "uuid8">>
WorkflowIds == {"wf1", "wf2"}
Digits == {"0", "1", "2", "3", "4", "5", "6", "7", "8", "9"}
TerminalStatuses == {"completed", "approved", "flagged", "declined", "error"}

Ssn9 == <<"1", "2", "3", "4", "5", "6", "7", "8", "9">>
SsnDashed == <<"1", "2", "3", "-", "4", "5", "-", "6", "7", "8", "9">>
Ssn5 == <<"1", "2", "3", "4", "5">>
SsnInputs == {Ssn9, SsnDashed, Ssn5}

\* an ssn sent as the JSON number 123456789 (truthy, and without a method
\* replace), written as a pair of its typeof and its digits
SsnNumber == <<"number", "123456789">>
NonStringSsns == {SsnNumber}

VARIABLES
    users,            \* server.js users: user id -> account, for registered users
    backgroundChecks, \* server.js backgroundChecks: the record store, in push order
    timers,           \* pending setTimeout callbacks of the stage simulator
    now,              \* wall clock
    systemStatus,     \* MCPIntegration.systemStatus
    activeWorkflows,  \* MCPIntegration.activeWorkflows
    inflight,         \* submission handlers suspended at await processMCPBackgroundCheck
    responded,        \* store indices of the submissions already answered 201
    lastResponse,     \* the most recent HTTP response of the submission endpoint
    delivered,        \* number of deliveries of each notification payload
    lastAck,          \* the most recent answer of the notification endpoint
    lastGet,          \* the most recent answer of GET /api/background-checks/:id
    rtwCalls,         \* simple_server.js handlers suspended in rtwIntegration.processBackgroundCheck
    rtwSent,          \* number of submissions the simple server has received
    lastRtw,          \* the most recent submission of the simple server with its answer
    lastPoll,         \* the most recent result of a status poll
    lastHealth,       \* the most recent answer of a health endpoint
    lastCalc,         \* the most recent evaluation of a function of the normaliser
    lastList,         \* the most recent answer of GET /api/background-checks
    userRateLimits,   \* AuthRateLimiter.userRateLimits: key -> timestamps of its requests
    failedAttempts,   \* AuthRateLimiter.failedAttempts: ip -> count and time of the last failure
    passedLog,        \* the requests the endpoint rate limiter has let through, in order
    lastGate,         \* the most recent decision of a middleware of AuthRateLimiter
    monitor           \* position of the callback of startHealthMonitoring

\* the state outside the check lifecycle of server.js
\* the answers of the read-only endpoints and evaluations
\* the state of auth_rate_limiter.js and of the health monitoring
guardVars == <<userRateLimits, failedAttempts, passedLog, lastGate, monitor>>

observerVars == <<lastHealth, lastCalc, lastList, guardVars>>

otherVars == <<rtwCalls, rtwSent, lastRtw, lastPoll, observerVars>>

vars == <<users, backgroundChecks, timers, now, systemStatus, activeWorkflows,
          inflight, responded, lastResponse, delivered, lastAck, lastGet,
          rtwCalls, rtwSent, lastRtw, lastPoll, lastHealth, lastCalc, lastList,
          userRateLimits, failedAttempts, passedLog, lastGate, monitor>>

\* ------------------------------------------------------------ pure helpers
IsDigit(c) == c \in Digits

\* ssn.replace(/\d(?=\d{4})/g, "*"): a digit is replaced when the four
\* characters right after it are digits
MaskSsn(s) ==
    [i \in 1..Len(s) |->
        IF IsDigit(s[i]) /\ i + 4 <= Len(s) /\ (\A k \in 1..4 : IsDigit(s[i + k]))
        THEN "*" ELSE s[i]]

\* the if / else-if chain that sets results.riskLevel from results.overallScore
RiskOfScore(score) ==
    IF score >= LowRiskMin THEN "low"
    ELSE IF score >= MediumRiskMin THEN "medium"
    ELSE "high"

statusMap ==
    [approve |-> "approved", approve_with_conditions |-> "approved",
     manual_review |-> "flagged", decline |-> "declined"]

\* statusMap is an object literal: a key it does not own is looked up in
\* Object.prototype, whose properties (two of them here) are functions
ObjectPrototype == [constructor |-> "function Object", toString |-> "function toString"]

\* statusMap[mcpRecommendation] || 'processing'
mapMCPStatusToPropertyVet(rec) ==
    IF rec \in DOMAIN statusMap THEN statusMap[rec]
    ELSE IF rec \in DOMAIN ObjectPrototype THEN ObjectPrototype[rec]
    ELSE "processing"

\* the rescaling with maxScore taken for the range
calculatePropertyVetScore_FullRange(mcpScore) ==
    IF mcpScore.type # "number" THEN DefaultScore
    ELSE (200 * MinScore + 2 * mcpScore.value * MaxScore + 100) \div 200

\* typeof mcpScore !== 'number' gives 650; otherwise
\* Math.round(minScore + (mcpScore / 100) * range) with range = maxScore - minScore,
\* for an integer mcpScore (Math.round rounds halves towards +infinity)
calculatePropertyVetScore(mcpScore) ==
    IF mcpScore.type # "number" THEN DefaultScore
    ELSE (200 * MinScore + 2 * mcpScore.value * (MaxScore - MinScore) + 100) \div 200

\* array.find / findIndex: the first index whose record satisfies the test, 0 if none
FindIndexById(checks, id) ==
    IF \E i \in 1..Len(checks) : checks[i].id = id
    THEN CHOOSE i \in 1..Len(checks) :
            checks[i].id = id /\ \A j \in 1..(i - 1) : checks[j].id # id
    ELSE 0

SampleCheck(id, name, status, score, risk) ==
    [id |-> id, userId |-> Undefined, applicantName |-> name,
     email |-> Undefined, ssn |-> << >>,
     dateOfBirth |-> Undefined, checkLevel |-> Undefined,
     status |-> status, createdAt |-> NoNumber, completedAt |-> NoNumber,
     score |-> score, riskLevel |-> risk,
     overallScore |-> NoNumber, resultsRiskLevel |-> Undefined,
     mcpEnabled |-> FALSE, mcpProcessed |-> FALSE, mcpWorkflowId |-> Undefined]

sampleChecks ==
    << SampleCheck("check_001", "Sarah Johnson", "approved", 742, "low"),
       SampleCheck("check_002", "Mike Chen", "flagged", 620, "medium"),
       SampleCheck("check_003", "Alex Kim", "processing", NoNumber, Undefined) >>

NumSamples == Len(sampleChecks)

\* records pushed by submissions (the samples carry no userId)
SubmittedIdx == { i \in 1..Len(backgroundChecks) : i > NumSamples }

NoResponse ==
    [code |-> 0, user |-> Undefined, checkId |-> Undefined,
     mcpEnhanced |-> FALSE, mcpFallback |-> FALSE]

\* bodies of POST /api/mcp/notification
Payloads ==
    [workflow_id : WorkflowIds, status : {"completed"}, recommendation : {"approve"}]

NoAck == [code |-> 0, status |-> Undefined, workflow_id |-> Undefined, timestamp |-> NoNumber]

NoGet == [user |-> Undefined, id |-> Undefined, code |-> 0]

NoRtw == [code |-> 0]

NoPoll == [kind |-> Undefined]

NoHealth == [kind |-> Undefined, code |-> 0]

NoCalc == [fn |-> Undefined]

NoList == [code |-> 0]

NoGate == [gate |-> Undefined, code |-> 0]

Init ==
    /\ users = [u \in {} |-> 0]
    /\ backgroundChecks = sampleChecks
    /\ timers = {}
    /\ now = 0
    /\ systemStatus = "initializing"
    /\ activeWorkflows = [w \in {} |-> 0]
    /\ inflight = {}
    /\ responded = {}
    /\ lastResponse = NoResponse
    /\ delivered = [p \in Payloads |-> 0]
    /\ lastAck = NoAck
    /\ lastGet = NoGet
    /\ rtwCalls = {}
    /\ rtwSent = 0
    /\ lastRtw = NoRtw
    /\ lastPoll = NoPoll
    /\ lastHealth = NoHealth
    /\ lastCalc = NoCalc
    /\ lastList = NoList
    /\ userRateLimits = [k \in {} |-> << >>]
    /\ failedAttempts = [ip \in {} |-> 0]
    /\ passedLog = << >>
    /\ lastGate = NoGate
    /\ monitor = "idle"

\* ------------------------------------------------------------ registration
\* POST /api/auth/register: a new account starts on the trial tier
Register(u) ==
    /\ u \notin DOMAIN users
    /\ users' = users @@ (u :> [subscription |-> "trial", checksRemaining |-> TrialChecks])
    /\ UNCHANGED <<backgroundChecks, timers, now, systemStatus, activeWorkflows,
                   inflight, responded, lastResponse, delivered, lastAck, lastGet, otherVars>>

\* -------------------------------------------------------------- plan change
\* POST /api/payments/process
PlanQuota(user, planId) ==
    IF planId = "starter" THEN StarterChecks
    ELSE IF planId = "professional" THEN ProfessionalChecks
    ELSE IF planId = "enterprise" THEN Unlimited
    ELSE user.checksRemaining

ProcessPayment(u, planId) ==
    /\ u \in DOMAIN users
    /\ users' = [users EXCEPT ![u] =
                    [subscription |-> planId, checksRemaining |-> PlanQuota(users[u], planId)]]
    /\ UNCHANGED <<backgroundChecks, timers, now, systemStatus, activeWorkflows,
                   inflight, responded, lastResponse, delivered, lastAck, lastGet, otherVars>>

\* --------------------------------------------------------------- submission
\* !applicantName || !email || !ssn || !dateOfBirth || !checkLevel
\* (a missing field and the empty string are both falsy)
Falsy(v) == v = Undefined \/ v = ""

InvalidBody(body) ==
    \/ Falsy(body.applicantName)
    \/ Falsy(body.email)
    \/ body.ssn = << >>
    \/ Falsy(body.dateOfBirth)
    \/ Falsy(body.checkLevel)

\* ssn.replace(...) throws a TypeError when ssn is not a string
ReplaceThrows(ssn) == ssn \in NonStringSsns

\* the quota test without the test of the tier
QuotaDenied_AnyTier(user) == user.checksRemaining <= 0

\* user.checksRemaining <= 0 && user.subscription === 'trial'
QuotaDenied(user) == user.checksRemaining <= 0 /\ user.subscription = "trial"

\* the admission without the decrement
AfterAdmission_Keep(user) == user

\* if (user.subscription === 'trial') user.checksRemaining--
AfterAdmission(user) ==
    IF user.subscription = "trial"
    THEN [user EXCEPT !.checksRemaining = @ - 1]
    ELSE user

NewCheck(id, u, body, useMCP) ==
    [id |-> id, userId |-> u, applicantName |-> body.applicantName,
     email |-> body.email, ssn |-> MaskSsn(body.ssn),
     dateOfBirth |-> body.dateOfBirth, checkLevel |-> body.checkLevel,
     status |-> "processing", createdAt |-> now, completedAt |-> NoNumber,
     score |-> NoNumber, riskLevel |-> Undefined,
     overallScore |-> NoNumber, resultsRiskLevel |-> Undefined,
     mcpEnabled |-> useMCP, mcpProcessed |-> FALSE, mcpWorkflowId |-> Undefined]

\* the body of POST {bridgeUrl}/api/mcp/background-check: the fields of the
\* submission but the ssn, and the id of the record
mcpData(body, id) ==
    [applicantName |-> body.applicantName, email |-> body.email,
     dateOfBirth |-> body.dateOfBirth, checkLevel |-> body.checkLevel,
     checkId |-> id]

NumSteps == Len(StepDelays)

TotalStepDelay == StepDelays[1] + StepDelays[2] + StepDelays[3] + StepDelays[4] + StepDelays[5]

\* setTimeout(() => processBackgroundCheck(id), 2000)
StartTimer(id) == [checkId |-> id, step |-> 0, due |-> now + StartDelay]

\* res.status(code).json(...); the flags mcpEnhanced and mcpFallback are absent
\* (falsy) in every answer but those of the two MCP branches
Response(code, u, id) ==
    [code |-> code, user |-> u, checkId |-> id, mcpEnhanced |-> FALSE, mcpFallback |-> FALSE]

\* the answer of the MCP branches: mcpEnhanced: true after a merge,
\* mcpFallback: true after the fall back to standard processing
McpResponse(u, id, enhanced) ==
    [code |-> 201, user |-> u, checkId |-> id,
     mcpEnhanced |-> enhanced, mcpFallback |-> ~enhanced]

\* mcpMiddleware.enhanceBackgroundCheck
UseMCP == systemStatus = "active"

\* POST /api/background-checks up to its first await (or to its end on the
\* standard path).  maxReq bounds the records the behaviour may create.  An
\* exception thrown while the record is built is answered 500 by the catch
\* block of the handler, before anything is stored.
SubmitCheck(u, body, maxReq) ==
    /\ u \in DOMAIN users
    /\ now <= SubmitWindow
    /\ IF InvalidBody(body)
       THEN /\ lastResponse' = Response(400, u, Undefined)
            /\ UNCHANGED <<users, backgroundChecks, timers, inflight, responded>>
       ELSE IF QuotaDenied(users[u])
       THEN /\ lastResponse' = Response(402, u, Undefined)
            /\ UNCHANGED <<users, backgroundChecks, timers, inflight, responded>>
       ELSE IF ReplaceThrows(body.ssn)
       THEN /\ lastResponse' = Response(500, u, Undefined)
            /\ UNCHANGED <<users, backgroundChecks, timers, inflight, responded>>
       ELSE LET idx == Len(backgroundChecks) + 1
                id == Uuids[idx - NumSamples]
            IN  /\ idx - NumSamples <= maxReq
                /\ backgroundChecks' = Append(backgroundChecks, NewCheck(id, u, body, UseMCP))
                /\ users' = [users EXCEPT ![u] = AfterAdmission(@)]
                /\ IF UseMCP
                   THEN /\ inflight' = inflight \cup
                               {[idx |-> idx, checkId |-> id, user |-> u,
                                 payload |-> mcpData(body, id),
                                 applicantName |-> body.applicantName, sentAt |-> now,
                                 tierSeen |-> users[u].subscription,
                                 quotaSeen |-> users[u].checksRemaining]}
                        /\ UNCHANGED <<timers, responded, lastResponse>>
                   ELSE /\ timers' = timers \cup {StartTimer(id)}
                        /\ responded' = responded \cup {idx}
                        /\ lastResponse' = Response(201, u, id)
                        /\ UNCHANGED inflight
    /\ UNCHANGED <<now, systemStatus, activeWorkflows, delivered, lastAck, lastGet, otherVars>>

\* ------------------------------------------------------ orchestration client
\* what the bridge may answer to POST /api/mcp/background-check
McpData ==
    [status : {"success", "error"},
     workflow_id : WorkflowIds \cup {Undefined},
     applicant_name : {Undefined},
     recommendation : {"approve", "manual_review", Undefined},
     overall_score : {NoScore, JsonNumber(82), JsonNumber(100)},
     risk_level : {Undefined, "low"},
     total_duration_seconds : {NoNumber},
     started_at : {NoNumber},
     completed_at : {NoNumber}]

\* axios resolves with the data of a 2xx answer, or rejects (transport error,
\* non-2xx answer, timeout)
McpFailure == [ok |-> FALSE]
McpAnswers == {McpFailure} \cup { [ok |-> TRUE, data |-> d] : d \in McpData }

\* the outcome of an operation that throws (an async function that rejects)
Thrown == [thrown |-> TRUE]

\* processMCPBackgroundCheck without its catch block
McpResult_NoCatch(req, resp) ==
    IF resp.ok /\ resp.data # JsonNull
    THEN resp.data @@ [processingTime |-> now - req.sentAt, mcpIntegrationStatus |-> "success"]
    ELSE Thrown

\* processMCPBackgroundCheck: the value it resolves with.  A rejected request
\* and the TypeError of response.data.workflow_id on a null body both end in
\* the catch block.
McpResult(req, resp) ==
    IF resp.ok /\ resp.data # JsonNull
    THEN resp.data @@ [processingTime |-> now - req.sentAt, mcpIntegrationStatus |-> "success"]
    ELSE [status |-> "error", error |-> "MCP integration failed",
          mcpIntegrationStatus |-> "failed", fallbackRequired |-> TRUE]

\* processMCPBackgroundCheck: this.activeWorkflows.set(...) when the answer carries a workflow_id
WorkflowsAfterDispatch(req, resp) ==
    IF resp.ok /\ resp.data # JsonNull /\ resp.data.workflow_id # Undefined
    THEN [w \in DOMAIN activeWorkflows \cup {resp.data.workflow_id} |->
            IF w = resp.data.workflow_id
            THEN [applicantName |-> req.applicantName, startTime |-> now,
                  status |-> resp.data.status, processingTime |-> now - req.sentAt,
                  completedTime |-> NoNumber, recommendation |-> Undefined]
            ELSE activeWorkflows[w]]
    ELSE activeWorkflows

\* workflowMetrics.total_duration_seconds || 0
DurationOrZero(d) == IF d = NoNumber THEN 0 ELSE d

\* finalRecommendation.risk_level || 'medium'
RiskLevelOrDefault(risk) == IF risk = Undefined THEN "medium" ELSE risk

\* mcpResult.error || 'MCP processing failed'
ErrorOrDefault(mcpResult) ==
    IF "error" \in DOMAIN mcpResult /\ ~Falsy(mcpResult.error)
    THEN mcpResult.error
    ELSE "MCP processing failed"

\* the TypeError of mcpResult.status on null ends in the catch block
convertMCPResultToPropertyVetFormat(mcpResult) ==
    IF mcpResult = JsonNull
    THEN [status |-> "error", error |-> "Result conversion failed"]
    ELSE IF mcpResult.status # "success"
    THEN [status |-> "error", error |-> ErrorOrDefault(mcpResult)]
    ELSE [id |-> mcpResult.workflow_id,
          applicantName |-> mcpResult.applicant_name,
          status |-> mapMCPStatusToPropertyVet(mcpResult.recommendation),
          score |-> calculatePropertyVetScore(mcpResult.overall_score),
          riskLevel |-> RiskLevelOrDefault(mcpResult.risk_level),
          processingTime |-> DurationOrZero(mcpResult.total_duration_seconds),
          completedAt |-> mcpResult.completed_at,
          createdAt |-> mcpResult.started_at]

\* { ...backgroundChecks[i], ...convertedResult, mcpProcessed: true, mcpWorkflowId }
MergeMcp(check, converted, workflowId) ==
    [mcpProcessed |-> TRUE, mcpWorkflowId |-> workflowId] @@ converted @@ check

\* the submission handler resumes after await processMCPBackgroundCheck; had
\* the call rejected, the catch block of the branch would start the stage
\* timer and answer 201 with neither mcpEnhanced nor mcpFallback
McpReturn(req, resp) ==
    /\ req \in inflight
    /\ inflight' = inflight \ {req}
    /\ activeWorkflows' = WorkflowsAfterDispatch(req, resp)
    /\ LET mcpResult == McpResult(req, resp)
           i == FindIndexById(backgroundChecks, req.checkId)
       IN  IF mcpResult # Thrown /\ mcpResult.status = "success"
           THEN /\ backgroundChecks' =
                      IF i # 0
                      THEN [backgroundChecks EXCEPT ![i] =
                              MergeMcp(@, convertMCPResultToPropertyVetFormat(mcpResult),
                                       mcpResult.workflow_id)]
                      ELSE backgroundChecks
                /\ UNCHANGED timers
           ELSE /\ timers' = timers \cup {StartTimer(req.checkId)}
                /\ UNCHANGED backgroundChecks
    /\ responded' = responded \cup {req.idx}
    /\ lastResponse' =
          IF McpResult(req, resp) = Thrown
          THEN [McpResponse(req.user, req.checkId, FALSE) EXCEPT !.mcpFallback = FALSE]
          ELSE McpResponse(req.user, req.checkId, McpResult(req, resp).status = "success")
    /\ UNCHANGED <<users, now, systemStatus, delivered, lastAck, lastGet, otherVars>>

\* initializeMCPSystem, started by the constructor, settles
InitializeReturn(ok) ==
    /\ systemStatus = "initializing"
    /\ systemStatus' = IF ok THEN "active" ELSE "error"
    /\ UNCHANGED <<users, backgroundChecks, timers, now, activeWorkflows,
                   inflight, responded, lastResponse, delivered, lastAck, lastGet, otherVars>>

\* handleMCPNotification: the tracking entry after a notification
NotifiedWorkflow(workflow, p) ==
    [workflow EXCEPT !.status = p.status, !.completedTime = now,
                     !.recommendation = p.recommendation]

\* the tracking map with an entry made for a workflow it does not know
WorkflowsAfterNotification_Upsert(p) ==
    [w \in DOMAIN activeWorkflows \cup {p.workflow_id} |->
        IF w = p.workflow_id
        THEN [applicantName |-> Undefined, startTime |-> NoNumber, status |-> p.status,
              processingTime |-> NoNumber, completedTime |-> now,
              recommendation |-> p.recommendation]
        ELSE activeWorkflows[w]]

\* handleMCPNotification: if (this.activeWorkflows.has(workflow_id)) { ... }
WorkflowsAfterNotification(p) ==
    IF p.workflow_id \in DOMAIN activeWorkflows
    THEN [activeWorkflows EXCEPT ![p.workflow_id] = NotifiedWorkflow(@, p)]
    ELSE activeWorkflows

\* POST /api/mcp/notification: res.json(this.handleMCPNotification(req.body))
HandleNotification(p) ==
    /\ delivered[p] < MaxDeliveries
    /\ delivered' = [delivered EXCEPT ![p] = @ + 1]
    /\ activeWorkflows' = WorkflowsAfterNotification(p)
    /\ lastAck' = [code |-> 200, status |-> "received", workflow_id |-> p.workflow_id,
                   timestamp |-> now]
    /\ UNCHANGED <<users, backgroundChecks, timers, now, systemStatus,
                   inflight, responded, lastResponse, lastGet, otherVars>>

\* ------------------------------------------------------------ stage simulator
\* the cumulative delay of step k of processBackgroundCheck
RECURSIVE CumulativeDelay(_)
CumulativeDelay(k) == IF k = 0 THEN 0 ELSE CumulativeDelay(k - 1) + StepDelays[k]

\* processBackgroundCheck: one timer per step, at the cumulative delay
StepTimers(id) ==
    { [checkId |-> id, step |-> k, due |-> now + CumulativeDelay(k)] : k \in 1..NumSteps }

\* Math.floor(Math.random() * 200) + 650: the ends of the range
SimScores == {ScoreBase, ScoreBase + ScoreSpan - 1}

\* completeBackgroundCheck: Object.assign(check, mockResults)
CompletedCheck(check, score) ==
    [status |-> "completed", completedAt |-> now,
     overallScore |-> score, resultsRiskLevel |-> RiskOfScore(score)] @@ check

completeBackgroundCheck(checks, id, score) ==
    LET i == FindIndexById(checks, id)
    IN  IF i = 0 THEN checks ELSE [checks EXCEPT ![i] = CompletedCheck(@, score)]

\* the step that completes the check, taken for the first one
IsLastStep_First(k) == k = 1

\* if (index === steps.length - 1)
IsLastStep(k) == k = NumSteps

\* timers fire in the order of their expiry, never before it
Due(t) == t.due <= now /\ \A o \in timers : o.due >= t.due

FireTimer(t, score) ==
    /\ t \in timers
    /\ Due(t)
    /\ IF t.step = 0
       THEN /\ timers' = (timers \ {t}) \cup
                  (IF FindIndexById(backgroundChecks, t.checkId) = 0
                   THEN {} ELSE StepTimers(t.checkId))
            /\ UNCHANGED backgroundChecks
       ELSE /\ timers' = timers \ {t}
            /\ backgroundChecks' =
                  IF IsLastStep(t.step)
                  THEN completeBackgroundCheck(backgroundChecks, t.checkId, score)
                  ELSE backgroundChecks
    /\ UNCHANGED <<users, now, systemStatus, activeWorkflows, inflight, responded,
                   lastResponse, delivered, lastAck, lastGet, otherVars>>

\* Time passes.  While requests may still arrive or a dispatch is awaited the
\* clock moves by one second; otherwise it moves to the expiry of the next
\* timer.  A dispatch is answered (or fails) within MaxLatency and a timer
\* fires at its expiry.
NextInstant ==
    IF now < SubmitWindow \/ inflight # {}
    THEN now + 1
    ELSE CHOOSE d \in { t.due : t \in timers } : \A t \in timers : d <= t.due

Tick ==
    /\ now < SubmitWindow \/ timers # {} \/ inflight # {}
    /\ \A r \in inflight : now < r.sentAt + MaxLatency
    /\ \A t \in timers : now < t.due
    /\ now' = NextInstant
    /\ UNCHANGED <<users, backgroundChecks, timers, systemStatus, activeWorkflows,
                   inflight, responded, lastResponse, delivered, lastAck, lastGet, otherVars>>

\* ------------------------------------------------------------- status query
\* the lookup without the test of the owner
FindOwned_AnyOwner(checks, id, u) == FindIndexById(checks, id)

\* backgroundChecks.find(c => c.id === req.params.id && c.userId === req.user.userId)
FindOwned(checks, id, u) ==
    IF \E i \in 1..Len(checks) : checks[i].id = id /\ checks[i].userId = u
    THEN CHOOSE i \in 1..Len(checks) :
            /\ checks[i].id = id /\ checks[i].userId = u
            /\ \A j \in 1..(i - 1) : ~(checks[j].id = id /\ checks[j].userId = u)
    ELSE 0

NotFoundResponse(u, id) == [user |-> u, id |-> id, code |-> 404]

\* GET /api/background-checks/:id as answered to user u
GetCheckResponse(u, id) ==
    LET i == FindOwned(backgroundChecks, id, u)
    IN  IF i = 0
        THEN NotFoundResponse(u, id)
        ELSE [user |-> u, id |-> id, code |-> 200, body |-> backgroundChecks[i]]

GetCheck(u, id) ==
    /\ u \in DOMAIN users
    /\ lastGet' = GetCheckResponse(u, id)
    /\ UNCHANGED <<users, backgroundChecks, timers, now, systemStatus, activeWorkflows,
                   inflight, responded, lastResponse, delivered, lastAck, otherVars>>

\* the list without the filter
ListedChecks_All(checks, u) == checks

\* backgroundChecks.filter(check => check.userId === req.user.userId)
ListedChecks(checks, u) == SelectSeq(checks, LAMBDA check : check.userId = u)

\* GET /api/background-checks as answered to user u
ListChecks(u) ==
    /\ u \in DOMAIN users
    /\ lastList' = [code |-> 200, user |-> u, body |-> ListedChecks(backgroundChecks, u)]
    /\ UNCHANGED <<users, backgroundChecks, timers, now, systemStatus, activeWorkflows,
                   inflight, responded, lastResponse, delivered, lastAck, lastGet,
                   rtwCalls, rtwSent, lastRtw, lastPoll, lastHealth, lastCalc, guardVars>>

\* ------------------------------------------------------------ RTW integration
\* a field of a request body, undefined when the body has no such field
Field(body, f) == IF f \in DOMAIN body THEN body[f] ELSE Undefined

\* applicantData.checkLevel || 'standard'
CheckLevelOrDefault(level) == IF Falsy(level) THEN "standard" ELSE level

\* processBackgroundCheck: the body of POST {rtwBaseUrl}/orchestrate
rtwPayload(applicantData) ==
    [applicant |-> [fullName |-> Field(applicantData, "name"),
                    email |-> Field(applicantData, "email"),
                    ssn |-> Field(applicantData, "ssn"),
                    dateOfBirth |-> Field(applicantData, "dateOfBirth")],
     checkLevel |-> CheckLevelOrDefault(Field(applicantData, "checkLevel")),
     priority |-> "high"]

\* axios resolves with the data of a 2xx answer, or rejects (transport error,
\* non-2xx answer, timeout)
RtwFailure == [ok |-> FALSE]

RtwTaskIds == {"task1", Undefined}

RtwAnswers ==
    {RtwFailure} \cup
    { [ok |-> TRUE, data |-> [taskId |-> t, estimatedCompletion |-> NoNumber]] :
         t \in RtwTaskIds }

\* processBackgroundCheck: the envelope returned after a successful dispatch
DispatchEnvelope(data) ==
    [success |-> TRUE, taskId |-> data.taskId, eta |-> data.estimatedCompletion,
     status |-> "processing", message |-> "RTW orchestration initiated successfully"]

\* the chain with > in the place of >=
FallbackRiskOfScore_Strict(score) ==
    IF score > FallbackLowRiskMin THEN "low"
    ELSE IF score > FallbackMediumRiskMin THEN "medium"
    ELSE "high"

\* fallbackProcessing: the if / else-if chain on mockResults.results.overallScore
FallbackRiskOfScore(score) ==
    IF score >= FallbackLowRiskMin THEN "low"
    ELSE IF score >= FallbackMediumRiskMin THEN "medium"
    ELSE "high"

\* Math.floor(Math.random() * 200) + 650: the ends of the range
FallbackScores == {FallbackScoreBase, FallbackScoreBase + FallbackScoreSpan - 1}

\* 'fallback_' + Date.now()
FallbackTaskId == "fallback_" \o ToString(now)

\* the sections of mockResults.results that do not depend on a random draw
FallbackSections ==
    [identityVerification |->
        [status |-> "verified", confidence |-> "high", source |-> "SpiderFoot OSINT"],
     criminalBackground |->
        [status |-> "clear", recordsFound |-> 0, source |-> "Public Records Database"],
     employmentVerification |->
        [status |-> "verified", employer |-> "Tech Solutions Inc.",
         source |-> "Firecrawl Employment Check"],
     publicRecords |-> [civilJudgments |-> 0, bankruptcies |-> 0, liens |-> 0],
     socialMediaScreening |-> [status |-> "clean", riskFlags |-> 0],
     rentalHistory |->
        [status |-> "positive", propertiesCount |-> 3, evictions |-> 0,
         latePayments |-> 1, referencesContacted |-> 3],
     riskFactors |-> << >>,
     dataValidation |-> [crossVerified |-> TRUE, sourcesUsed |-> 6, lastUpdated |-> now]]

\* the results without the rental history and with no recommendation
FallbackResults_Short(score, creditScore) ==
    [overallScore |-> score, riskLevel |-> FallbackRiskOfScore(score),
     identityVerification |-> FallbackSections.identityVerification,
     creditAssessment |->
        [score |-> creditScore, grade |-> "excellent", tradelines |-> 5, derogatory |-> 0],
     criminalBackground |-> FallbackSections.criminalBackground,
     employmentVerification |-> FallbackSections.employmentVerification,
     recommendations |-> << >>]

\* fallbackProcessing: mockResults.results after the risk level is set
FallbackResults(score, creditScore) ==
    [overallScore |-> score, riskLevel |-> FallbackRiskOfScore(score),
     creditAssessment |->
        [score |-> creditScore, grade |-> "excellent", tradelines |-> 5, derogatory |-> 0],
     recommendations |->
        <<"Excellent tenant candidate - approve with confidence",
          "Standard security deposit recommended",
          "12-month lease term acceptable",
          "Consider offering preferred tenant benefits",
          "No additional documentation required">>] @@ FallbackSections

\* the fallback results under the envelope of a dispatch, without the tag
fallbackProcessing_Untagged(applicantData, score, creditScore) ==
    [success |-> TRUE, taskId |-> FallbackTaskId, eta |-> now + FallbackEta,
     status |-> "processing", message |-> "Background check processing initiated",
     results |-> FallbackResults(score, creditScore)]

\* fallbackProcessing: the envelope it resolves with
fallbackProcessing(applicantData, score, creditScore) ==
    [success |-> TRUE, taskId |-> FallbackTaskId, eta |-> now + FallbackEta,
     status |-> "processing", message |-> "Background check processing initiated",
     fallback |-> TRUE,
     results |-> FallbackResults(score, creditScore)]

\* res.json(result) of POST /api/background-checks of simple_server.js, kept
\* with the request it answers and the outcome of the orchestration request
RtwResponse(call, requestOk, envelope) ==
    [code |-> 200, request |-> call.request, requestOk |-> requestOk, envelope |-> envelope]

\* POST /api/background-checks of simple_server.js up to the await of axios.post
RtwSubmit(body) ==
    /\ rtwSent < MaxRtwRequests
    /\ rtwSent' = rtwSent + 1
    /\ rtwCalls' = rtwCalls \cup
          {[n |-> rtwSent + 1, request |-> body, payload |-> rtwPayload(body),
            phase |-> "orchestrate"]}
    /\ UNCHANGED <<users, backgroundChecks, timers, now, systemStatus, activeWorkflows,
                   inflight, responded, lastResponse, delivered, lastAck, lastGet,
                   lastRtw, lastPoll, observerVars>>

\* the orchestration request settles: the handler answers with the dispatch
\* envelope, or enters fallbackProcessing and waits for its delay
RtwReturn(call, resp) ==
    /\ call \in rtwCalls
    /\ call.phase = "orchestrate"
    /\ IF resp.ok
       THEN /\ rtwCalls' = rtwCalls \ {call}
            /\ lastRtw' = RtwResponse(call, TRUE, DispatchEnvelope(resp.data))
       ELSE /\ rtwCalls' = (rtwCalls \ {call}) \cup {[call EXCEPT !.phase = "fallback"]}
            /\ UNCHANGED lastRtw
    /\ UNCHANGED <<users, backgroundChecks, timers, now, systemStatus, activeWorkflows,
                   inflight, responded, lastResponse, delivered, lastAck, lastGet,
                   rtwSent, lastPoll, observerVars>>

\* fallbackProcessing resumes after its delay and the handler answers
RtwFallbackReturn(call, score, creditScore) ==
    /\ call \in rtwCalls
    /\ call.phase = "fallback"
    /\ rtwCalls' = rtwCalls \ {call}
    /\ lastRtw' = RtwResponse(call, FALSE,
                              fallbackProcessing(call.request, score, creditScore))
    /\ UNCHANGED <<users, backgroundChecks, timers, now, systemStatus, activeWorkflows,
                   inflight, responded, lastResponse, delivered, lastAck, lastGet,
                   rtwSent, lastPoll, observerVars>>

\* ------------------------------------------------------------ status polling
\* what the orchestration dependency may answer to a status request
PollData == [status : {"processing", "completed"}]

PollFailure == [ok |-> FALSE]

PollAnswers == {PollFailure} \cup { [ok |-> TRUE, data |-> d] : d \in PollData }

\* the fallback envelope, taken for the result of a failed status request
TaskStatusOnFailure_Fallback ==
    fallbackProcessing([name |-> Undefined], FallbackScoreBase, FallbackScoreBase)

\* getTaskStatus: the value returned from the catch block
TaskStatusOnFailure == [status |-> "error", message |-> "Unable to check RTW status"]

\* getMCPWorkflowStatus: the value returned from the catch block
WorkflowStatusOnFailure ==
    [status |-> "error", error |-> "Failed to get workflow status", timestamp |-> now]

getTaskStatus(resp) == IF resp.ok THEN resp.data ELSE TaskStatusOnFailure

getMCPWorkflowStatus(resp) == IF resp.ok THEN resp.data ELSE WorkflowStatusOnFailure

\* GET /api/rtw/task/:taskId of simple_server.js
PollTask(taskId, resp) ==
    /\ lastPoll' = [kind |-> "task", id |-> taskId, requestOk |-> resp.ok,
                    result |-> getTaskStatus(resp)]
    /\ UNCHANGED <<users, backgroundChecks, timers, now, systemStatus, activeWorkflows,
                   inflight, responded, lastResponse, delivered, lastAck, lastGet,
                   rtwCalls, rtwSent, lastRtw, observerVars>>

\* GET /api/mcp/workflow/:workflowId of server.js
PollWorkflow(workflowId, resp) ==
    /\ lastPoll' = [kind |-> "workflow", id |-> workflowId, requestOk |-> resp.ok,
                    result |-> getMCPWorkflowStatus(resp)]
    /\ UNCHANGED <<users, backgroundChecks, timers, now, systemStatus, activeWorkflows,
                   inflight, responded, lastResponse, delivered, lastAck, lastGet,
                   rtwCalls, rtwSent, lastRtw, observerVars>>

\* ------------------------------------------------------------ health probes
\* what a dependency may answer to a health request
ProbeData == { [status |-> "ok"], JsonNull }

ProbeFailure == [ok |-> FALSE]

ProbeAnswers == {ProbeFailure} \cup { [ok |-> TRUE, data |-> d] : d \in ProbeData }

\* testConnection without its catch block
testConnection_NoCatch(resp) ==
    IF resp.ok /\ resp.data # JsonNull
    THEN [connected |-> TRUE, status |-> resp.data.status,
          message |-> "RTW connection successful"]
    ELSE Thrown

\* testConnection: a rejected request, and the TypeError of response.data.status
\* on a null body, both end in the catch block
testConnection(resp) ==
    IF resp.ok /\ resp.data # JsonNull
    THEN [connected |-> TRUE, status |-> resp.data.status,
          message |-> "RTW connection successful"]
    ELSE [connected |-> FALSE, error |-> "error.message",
          message |-> "RTW connection failed - using fallback mode"]

checkMCPSystemHealth(resp) ==
    IF resp.ok
    THEN [status |-> "healthy", mcpBridge |-> resp.data, systemStatus |-> systemStatus,
          activeWorkflows |-> Cardinality(DOMAIN activeWorkflows), timestamp |-> now]
    ELSE [status |-> "unhealthy", error |-> "error.message", systemStatus |-> "error",
          timestamp |-> now]

\* GET /api/health of server.js: the body of res.json, from the try block or,
\* had checkMCPSystemHealth thrown, from the catch block
HealthBody(mcpHealth) ==
    [status |-> "operational", service |-> "TAURUS PropertyVet API", timestamp |-> now,
     mcpSystem |-> IF mcpHealth = Thrown
                   THEN [status |-> "error", error |-> "error.message"]
                   ELSE mcpHealth]

\* GET /api/health of server.js
Health(resp) ==
    /\ lastHealth' = [kind |-> "health", code |-> 200, probeOk |-> resp.ok,
                      body |-> HealthBody(checkMCPSystemHealth(resp))]
    /\ UNCHANGED <<users, backgroundChecks, timers, now, systemStatus, activeWorkflows,
                   inflight, responded, lastResponse, delivered, lastAck, lastGet,
                   rtwCalls, rtwSent, lastRtw, lastPoll, lastCalc, lastList, guardVars>>

\* GET /api/rtw/status of simple_server.js: the handler awaits testConnection
\* outside any try block, so that a rejection would leave the request unanswered
RtwStatusResponse(resp, connection) ==
    IF connection = Thrown
    THEN [kind |-> "rtw", code |-> 0, probeOk |-> resp.ok]
    ELSE [kind |-> "rtw", code |-> 200, probeOk |-> resp.ok,
          body |-> [rtw_connection |-> connection, timestamp |-> now]]

RtwStatus(resp) ==
    /\ lastHealth' = RtwStatusResponse(resp, testConnection(resp))
    /\ UNCHANGED <<users, backgroundChecks, timers, now, systemStatus, activeWorkflows,
                   inflight, responded, lastResponse, delivered, lastAck, lastGet,
                   rtwCalls, rtwSent, lastRtw, lastPoll, lastCalc, lastList, guardVars>>

\* --------------------------------------------------------- health monitoring
\* the reconnection test with the test of systemStatus left out
MonitorReinitializes_Always(health) == health.status # "healthy"

\* if (health.status !== 'healthy' && this.systemStatus === 'active')
MonitorReinitializes(health) ==
    health.status # "healthy" /\ systemStatus = "active"

\* the callback of the interval of startHealthMonitoring, up to the await of
\* initializeMCPSystem; a probe (10 s) and an initialization (30 s) are over
\* before the next callback (60 s)
MonitorProbe(resp) ==
    /\ monitor = "idle"
    /\ monitor' = IF MonitorReinitializes(checkMCPSystemHealth(resp))
                  THEN "initializing"
                  ELSE "idle"
    /\ UNCHANGED <<users, backgroundChecks, timers, now, systemStatus, activeWorkflows,
                   inflight, responded, lastResponse, delivered, lastAck, lastGet,
                   rtwCalls, rtwSent, lastRtw, lastPoll, lastHealth, lastCalc, lastList,
                   userRateLimits, failedAttempts, passedLog, lastGate>>

\* initializeMCPSystem, started by the health monitoring, settles
ReinitializeReturn(ok) ==
    /\ monitor = "initializing"
    /\ monitor' = "idle"
    /\ systemStatus' = IF ok THEN "active" ELSE "error"
    /\ UNCHANGED <<users, backgroundChecks, timers, now, activeWorkflows,
                   inflight, responded, lastResponse, delivered, lastAck, lastGet,
                   rtwCalls, rtwSent, lastRtw, lastPoll, lastHealth, lastCalc, lastList,
                   userRateLimits, failedAttempts, passedLog, lastGate>>

\* ------------------------------------------------------- rules of the results
\* the risk level of one score, as each of the two generators derives it
DeriveRisk(score) ==
    /\ lastCalc' = [fn |-> "riskLevel", input |-> score,
                    simulator |-> RiskOfScore(score),
                    fallback |-> FallbackRiskOfScore(score)]
    /\ UNCHANGED <<users, backgroundChecks, timers, now, systemStatus, activeWorkflows,
                   inflight, responded, lastResponse, delivered, lastAck, lastGet,
                   rtwCalls, rtwSent, lastRtw, lastPoll, lastHealth, lastList, guardVars>>

\* this.calculatePropertyVetScore(finalRecommendation.overall_score)
CalculateScore(mcpScore) ==
    /\ lastCalc' = [fn |-> "calculatePropertyVetScore", input |-> mcpScore,
                    output |-> calculatePropertyVetScore(mcpScore)]
    /\ UNCHANGED <<users, backgroundChecks, timers, now, systemStatus, activeWorkflows,
                   inflight, responded, lastResponse, delivered, lastAck, lastGet,
                   rtwCalls, rtwSent, lastRtw, lastPoll, lastHealth, lastList, guardVars>>

\* this.mapMCPStatusToPropertyVet(finalRecommendation.recommendation)
MapStatus(rec) ==
    /\ lastCalc' = [fn |-> "mapMCPStatusToPropertyVet", input |-> rec,
                    output |-> mapMCPStatusToPropertyVet(rec)]
    /\ UNCHANGED <<users, backgroundChecks, timers, now, systemStatus, activeWorkflows,
                   inflight, responded, lastResponse, delivered, lastAck, lastGet,
                   rtwCalls, rtwSent, lastRtw, lastPoll, lastHealth, lastList, guardVars>>

\* --------------------------------------------------------------- rate limiter
\* setupEndpointLimits: a path (its segments) -> the limit of the endpoint
endpointLimits ==
    (<<"api", "mcp", "background-check">> :>
        [windowMs |-> BackgroundCheckWindow, maxRequests |-> BackgroundCheckMax])
    @@ (<<"api", "mcp", "workflow">> :>
        [windowMs |-> WorkflowWindow, maxRequests |-> WorkflowMax])
    @@ (<<"api", "mcp", "status">> :>
        [windowMs |-> StatusWindow, maxRequests |-> StatusMax])
    @@ (<<"api", "auth", "login">> :>
        [windowMs |-> LoginWindow, maxRequests |-> LoginMax])

\* path.startsWith(pattern), segment by segment
StartsWith(path, pattern) ==
    Len(pattern) <= Len(path) /\ SubSeq(path, 1, Len(pattern)) = pattern

\* getEndpointPattern: the pattern the path starts with (no pattern is the
\* start of another), or the path itself
getEndpointPattern(path) ==
    IF \E pattern \in DOMAIN endpointLimits : StartsWith(path, pattern)
    THEN CHOOSE pattern \in DOMAIN endpointLimits : StartsWith(path, pattern)
    ELSE path

\* req.user?.userId || 'anonymous'
UserOrAnonymous(user) == IF user = Undefined THEN "anonymous" ELSE user

\* `${endpoint}:${req.ip}:${...}`: the three parts of the key
RateKey(endpoint, ip, user) == <<endpoint, ip, UserOrAnonymous(user)>>

\* this.userRateLimits.get(key), after the key is set to [] when it is missing
RequestsOf(key) == IF key \in DOMAIN userRateLimits THEN userRateLimits[key] ELSE << >>

\* requests.filter(timestamp => timestamp > windowStart)
ValidRequests(requests, windowStart) == SelectSeq(requests, LAMBDA t : t > windowStart)

\* the test of the limit with > in the place of >=
LimitExceeded_Above(validRequests, limitConfig) ==
    Len(validRequests) > limitConfig.maxRequests

\* if (validRequests.length >= limitConfig.maxRequests)
LimitExceeded(validRequests, limitConfig) ==
    Len(validRequests) >= limitConfig.maxRequests

\* this.userRateLimits.set(key, ...)
SetRequests(key, requests) ==
    [k \in DOMAIN userRateLimits \cup {key} |->
        IF k = key THEN requests ELSE userRateLimits[k]]

\* the decision of a middleware: code 0 stands for next()
Gate(name, code, subject) == [gate |-> name, code |-> code, subject |-> subject, at |-> now]

\* the middleware of createEndpointRateLimiter.  The requests of a behaviour
\* that go to endpoints with a limit go to one of them.
EndpointRateLimit(path, ip, user) ==
    LET endpoint == getEndpointPattern(path)
        key == RateKey(endpoint, ip, user)
    IN  /\ IF endpoint \notin DOMAIN endpointLimits
           THEN /\ lastGate' = Gate("endpointRateLimit", 0, path)
                /\ UNCHANGED <<userRateLimits, passedLog>>
           ELSE LET limitConfig == endpointLimits[endpoint]
                    validRequests == ValidRequests(RequestsOf(key), now - limitConfig.windowMs)
                IN  /\ \A k \in DOMAIN userRateLimits : k[1] = endpoint
                    /\ IF LimitExceeded(validRequests, limitConfig)
                       THEN /\ userRateLimits' = SetRequests(key, validRequests)
                            /\ lastGate' = Gate("endpointRateLimit", 429, key)
                            /\ UNCHANGED passedLog
                       ELSE /\ Len(passedLog) < MaxPasses
                            /\ userRateLimits' = SetRequests(key, Append(validRequests, now))
                            /\ lastGate' = Gate("endpointRateLimit", 0, key)
                            /\ passedLog' = Append(passedLog, [key |-> key, at |-> now])
        /\ UNCHANGED <<users, backgroundChecks, timers, now, systemStatus, activeWorkflows,
                       inflight, responded, lastResponse, delivered, lastAck, lastGet,
                       rtwCalls, rtwSent, lastRtw, lastPoll, lastHealth, lastCalc, lastList,
                       failedAttempts, monitor>>

\* the clock moves by half the window of the endpoint the requests go to
AdvanceClock(endpoint) ==
    /\ \E key \in DOMAIN userRateLimits : key[1] = endpoint
    /\ now + endpointLimits[endpoint].windowMs \div 2
          <= MaxWindows * endpointLimits[endpoint].windowMs
    /\ now' = now + endpointLimits[endpoint].windowMs \div 2
    /\ UNCHANGED <<users, backgroundChecks, timers, systemStatus, activeWorkflows,
                   inflight, responded, lastResponse, delivered, lastAck, lastGet,
                   otherVars>>

\* the entries startCleanup keeps: a failure record while no more than an
\* hour has passed since its last attempt, a timestamp younger than an hour,
\* a key while it has such a timestamp
KeptAttempts == { ip \in DOMAIN failedAttempts : ~(now - failedAttempts[ip].lastAttempt > OneHour) }

KeptRequests(key) == SelectSeq(userRateLimits[key], LAMBDA t : now - t < OneHour)

\* the callback of the interval of startCleanup
Cleanup ==
    /\ failedAttempts' = [ip \in KeptAttempts |-> failedAttempts[ip]]
    /\ userRateLimits' =
          [key \in { k \in DOMAIN userRateLimits : KeptRequests(k) # << >> } |->
              KeptRequests(key)]
    /\ UNCHANGED <<users, backgroundChecks, timers, now, systemStatus, activeWorkflows,
                   inflight, responded, lastResponse, delivered, lastAck, lastGet,
                   rtwCalls, rtwSent, lastRtw, lastPoll, lastHealth, lastCalc, lastList,
                   passedLog, lastGate, monitor>>

\* -------------------------------------------------- brute-force protection
\* this.failedAttempts.get(ip) || { count: 0, lastAttempt: 0 }
AttemptsOf(attempts, ip) ==
    IF ip \in DOMAIN attempts THEN attempts[ip] ELSE [count |-> 0, lastAttempt |-> 0]

\* if (timeSinceLastAttempt > 60 * 60 * 1000) attempts.count = 0: the object
\* is the one the Map holds, so the reset stays when the address has an entry
AfterReset(ip) ==
    [k \in DOMAIN failedAttempts |->
        IF k = ip /\ now - failedAttempts[k].lastAttempt > OneHour
        THEN [failedAttempts[k] EXCEPT !.count = 0]
        ELSE failedAttempts[k]]

\* recordFailedAttempt(ip), on the Map the request finds
recordFailedAttempt(attempts, ip) ==
    [k \in DOMAIN attempts \cup {ip} |->
        IF k = ip
        THEN [count |-> AttemptsOf(attempts, ip).count + 1, lastAttempt |-> now]
        ELSE attempts[k]]

\* the block of createBruteForceProtection
BruteForceBlocked(attempts, timeSinceLastAttempt) ==
    /\ attempts.count >= BruteForceMax
    /\ OneHour - timeSinceLastAttempt > 0

\* a request through createBruteForceProtection and, when it passes, through
\* the authentication behind it: an invalid key or token records a failure
\* (401), a missing one does not (401), a valid one goes on (next)
BruteForceRequest(ip, auth) ==
    LET timeSinceLastAttempt == now - AttemptsOf(failedAttempts, ip).lastAttempt
        attempts == AttemptsOf(AfterReset(ip), ip)
    IN  /\ IF BruteForceBlocked(attempts, timeSinceLastAttempt)
           THEN /\ failedAttempts' = AfterReset(ip)
                /\ lastGate' = Gate("bruteForce", 429, [ip |-> ip, auth |-> Undefined])
           ELSE /\ auth = "invalid" => attempts.count < MaxFailures
                /\ failedAttempts' =
                      IF auth = "invalid"
                      THEN recordFailedAttempt(AfterReset(ip), ip)
                      ELSE AfterReset(ip)
                /\ lastGate' = Gate("bruteForce", IF auth = "valid" THEN 0 ELSE 401,
                                    [ip |-> ip, auth |-> auth])
        /\ UNCHANGED <<users, backgroundChecks, timers, now, systemStatus, activeWorkflows,
                       inflight, responded, lastResponse, delivered, lastAck, lastGet,
                       rtwCalls, rtwSent, lastRtw, lastPoll, lastHealth, lastCalc, lastList,
                       userRateLimits, passedLog, monitor>>

\* the clock moves to one second before the hour of the last failure of the
\* address is over, and from there by seconds
AdvanceBruteClock(ip) ==
    /\ ip \in DOMAIN failedAttempts
    /\ LET lastAttempt == failedAttempts[ip].lastAttempt
           later == IF now - lastAttempt < OneHour - 1
                    THEN lastAttempt + OneHour - 1
                    ELSE now + 1
       IN  /\ later <= OneHour + MaxDrift
           /\ now' = later
    /\ UNCHANGED <<users, backgroundChecks, timers, systemStatus, activeWorkflows,
                   inflight, responded, lastResponse, delivered, lastAck, lastGet,
                   otherVars>>

\* ------------------------------------------------------------ specification
ValidBody(ssn) ==
    [applicantName |-> "Jane Doe", email |-> "jane@example.com", ssn |-> ssn,
     dateOfBirth |-> "1990-01-01", checkLevel |-> "standard"]

\* a submission with the e-mail address missing
BodyWithoutEmail == [ValidBody(Ssn9) EXCEPT !.email = Undefined]

Bodies == { ValidBody(Ssn9), BodyWithoutEmail }

McpAnswer(status, wf, rec, score, risk) ==
    [ok |-> TRUE,
     data |-> [status |-> status, workflow_id |-> wf, applicant_name |-> Undefined,
               recommendation |-> rec, overall_score |-> score, risk_level |-> risk,
               total_duration_seconds |-> NoNumber,
               started_at |-> NoNumber, completed_at |-> NoNumber]]

\* the answers the lifecycle specification draws from
LifecycleAnswers ==
    { McpFailure,
      McpAnswer("error", Undefined, Undefined, NoScore, Undefined),
      McpAnswer("success", "wf1", "approve", JsonNumber(82), Undefined),
      McpAnswer("success", "wf2", Undefined, NoScore, Undefined) }

\* the check lifecycle follows the records of one account
LifecycleUsers == {"u1"}

\* the check lifecycle of server.js: registration, submission, orchestration
\* dispatch, stage simulator
Next ==
    \/ \E u \in LifecycleUsers : Register(u)
    \/ \E u \in LifecycleUsers, body \in Bodies : SubmitCheck(u, body, MaxRequests)
    \/ \E req \in inflight, resp \in LifecycleAnswers : McpReturn(req, resp)
    \/ \E ok \in BOOLEAN : InitializeReturn(ok)
    \/ \E t \in timers, score \in SimScores : FireTimer(t, score)
    \/ Tick

Spec == Init /\ [][Next]_vars

\* ------------------------------------------------------------ quota ledger
ApiAnswers == { McpFailure, McpAnswer("success", "wf1", "approve", JsonNumber(82), Undefined) }

PlanIds == {"starter", "professional", "enterprise"}

\* registration, plan changes and submissions, without the passage of time
NextQuota ==
    \/ \E u \in Users : Register(u)
    \/ \E u \in Users, planId \in PlanIds : ProcessPayment(u, planId)
    \/ \E u \in Users, body \in Bodies : SubmitCheck(u, body, MaxQuotaRequests)
    \/ \E req \in inflight, resp \in ApiAnswers : McpReturn(req, resp)
    \/ \E ok \in BOOLEAN : InitializeReturn(ok)

SpecQuota == Init /\ [][NextQuota]_vars

\* -------------------------------------------------------------- plan changes
\* req.body.planId: the ids of the plan catalogue, the tier of a new account,
\* and an id that no plan has
AnyPlanIds == PlanIds \cup {"trial", "basic"}

\* one account changing plans, with any planId, and submitting
NextPlans ==
    \/ \E u \in LifecycleUsers : Register(u)
    \/ \E u \in LifecycleUsers, planId \in AnyPlanIds : ProcessPayment(u, planId)
    \/ \E u \in LifecycleUsers, body \in Bodies : SubmitCheck(u, body, MaxPlanRequests)
    \/ \E req \in inflight, resp \in ApiAnswers : McpReturn(req, resp)
    \/ \E ok \in BOOLEAN : InitializeReturn(ok)

SpecPlans == Init /\ [][NextPlans]_vars

\* ------------------------------------------------------- colliding workflow id
\* the bridge fails, or names its workflow by the check id of the second
\* submission, with a recommendation or without one
RaceAnswers ==
    { McpFailure,
      McpAnswer("success", Uuids[2], "approve", JsonNumber(82), Undefined),
      McpAnswer("success", Uuids[2], Undefined, NoScore, Undefined) }

\* the check lifecycle with a bridge whose workflow ids meet the check ids
NextRace ==
    \/ \E u \in LifecycleUsers : Register(u)
    \/ \E u \in LifecycleUsers : SubmitCheck(u, ValidBody(Ssn9), MaxRaceRequests)
    \/ \E req \in inflight, resp \in RaceAnswers : McpReturn(req, resp)
    \/ \E ok \in BOOLEAN : InitializeReturn(ok)
    \/ \E t \in timers, score \in SimScores : FireTimer(t, score)
    \/ Tick

SpecRace == Init /\ [][NextRace]_vars

\* ---------------------------------------------------------- trial exhaustion
\* one trial account submitting until its quota is used up
NextTrial ==
    \/ \E u \in LifecycleUsers : Register(u)
    \/ \E u \in LifecycleUsers, body \in Bodies : SubmitCheck(u, body, MaxTrialRequests)
    \/ \E req \in inflight, resp \in ApiAnswers : McpReturn(req, resp)
    \/ \E ok \in BOOLEAN : InitializeReturn(ok)

SpecTrial == Init /\ [][NextTrial]_vars

\* ------------------------------------------------------------------ masking
MaskBodies == { ValidBody(ssn) : ssn \in SsnInputs }

\* submissions of every form of the sensitive identifier
NextMask ==
    \/ \E u \in Users : Register(u)
    \/ \E u \in Users, body \in MaskBodies : SubmitCheck(u, body, MaxMaskRequests)
    \/ \E req \in inflight, resp \in ApiAnswers : McpReturn(req, resp)
    \/ \E ok \in BOOLEAN : InitializeReturn(ok)

SpecMask == Init /\ [][NextMask]_vars

\* ------------------------------------------------------------- status query
\* ids a client may ask for: those of the samples, of submissions, of workflows
QueryIds == {"check_001", Uuids[1], Uuids[2], "wf1"}

\* the lifecycle, observed through GET /api/background-checks/:id
NextRead ==
    \/ \E u \in Users : Register(u)
    \/ \E u \in Users : SubmitCheck(u, ValidBody(Ssn9), MaxReadRequests)
    \/ \E req \in inflight, resp \in ApiAnswers : McpReturn(req, resp)
    \/ \E ok \in BOOLEAN : InitializeReturn(ok)
    \/ \E t \in timers, score \in SimScores : FireTimer(t, score)
    \/ Tick
    \/ \E u \in Users, id \in QueryIds : GetCheck(u, id)

SpecRead == Init /\ [][NextRead]_vars

\* ------------------------------------------------------------- notifications
\* dispatches through the bridge and the notifications it sends back
NextCallback ==
    \/ \E u \in Users : Register(u)
    \/ \E u \in Users : SubmitCheck(u, ValidBody(Ssn9), MaxCallbackRequests)
    \/ \E req \in inflight, resp \in ApiAnswers : McpReturn(req, resp)
    \/ \E ok \in BOOLEAN : InitializeReturn(ok)
    \/ \E p \in Payloads : HandleNotification(p)
    \/ \E t \in timers, score \in SimScores : FireTimer(t, score)
    \/ Tick

SpecCallback == Init /\ [][NextCallback]_vars

\* ------------------------------------------------------------ simple server
\* both server variants receiving submissions, and the RTW integration behind
\* the simple one
NextSimple ==
    \/ \E u \in LifecycleUsers : Register(u)
    \/ \E u \in LifecycleUsers, body \in Bodies : SubmitCheck(u, body, MaxSimpleRequests)
    \/ \E req \in inflight, resp \in ApiAnswers : McpReturn(req, resp)
    \/ \E ok \in BOOLEAN : InitializeReturn(ok)
    \/ \E body \in Bodies : RtwSubmit(body)
    \/ \E call \in rtwCalls, resp \in RtwAnswers : RtwReturn(call, resp)
    \/ \E call \in rtwCalls, score \in FallbackScores, creditScore \in FallbackScores :
          RtwFallbackReturn(call, score, creditScore)

SpecSimple == Init /\ [][NextSimple]_vars

\* ------------------------------------------------------------ status polling
TaskIds == {"task1"}

\* the check lifecycle of server.js up to the dispatch, with status polls of
\* the two orchestration dependencies
NextPoll ==
    \/ \E u \in LifecycleUsers : Register(u)
    \/ \E u \in LifecycleUsers : SubmitCheck(u, ValidBody(Ssn9), MaxPollRequests)
    \/ \E req \in inflight, resp \in ApiAnswers : McpReturn(req, resp)
    \/ \E ok \in BOOLEAN : InitializeReturn(ok)
    \/ \E taskId \in TaskIds, resp \in PollAnswers : PollTask(taskId, resp)
    \/ \E workflowId \in WorkflowIds, resp \in PollAnswers : PollWorkflow(workflowId, resp)

SpecPoll == Init /\ [][NextPoll]_vars

\* ------------------------------------------------------------ health probes
\* the check lifecycle of server.js up to the dispatch, with the health
\* endpoints of the two server variants
NextHealth ==
    \/ \E u \in LifecycleUsers : Register(u)
    \/ \E u \in LifecycleUsers : SubmitCheck(u, ValidBody(Ssn9), MaxHealthRequests)
    \/ \E req \in inflight, resp \in ApiAnswers : McpReturn(req, resp)
    \/ \E ok \in BOOLEAN : InitializeReturn(ok)
    \/ \E resp \in ProbeAnswers : Health(resp)
    \/ \E resp \in ProbeAnswers : RtwStatus(resp)

SpecHealth == Init /\ [][NextHealth]_vars

\* --------------------------------------------------------------- record list
\* the bridge fails, answers with a result, or with a success that carries
\* nothing else
ListAnswers ==
    ApiAnswers \cup {McpAnswer("success", Undefined, Undefined, NoScore, Undefined)}

\* two accounts submitting, and listing their records
NextList ==
    \/ \E u \in Users : Register(u)
    \/ \E u \in Users : SubmitCheck(u, ValidBody(Ssn9), MaxListRequests)
    \/ \E req \in inflight, resp \in ListAnswers : McpReturn(req, resp)
    \/ \E ok \in BOOLEAN : InitializeReturn(ok)
    \/ \E u \in Users : ListChecks(u)

SpecList == Init /\ [][NextList]_vars

\* ------------------------------------------------------- failures of a submission
\* a complete body whose ssn is a JSON number
BodyWithNumericSsn == ValidBody(SsnNumber)

FailureBodies == Bodies \cup {BodyWithNumericSsn}

\* both server variants receiving complete, incomplete and ill-typed bodies
NextFailure ==
    \/ \E u \in LifecycleUsers : Register(u)
    \/ \E u \in LifecycleUsers, body \in FailureBodies :
          SubmitCheck(u, body, MaxFailureRequests)
    \/ \E req \in inflight, resp \in LifecycleAnswers : McpReturn(req, resp)
    \/ \E ok \in BOOLEAN : InitializeReturn(ok)
    \/ \E body \in FailureBodies : RtwSubmit(body)
    \/ \E call \in rtwCalls, resp \in RtwAnswers : RtwReturn(call, resp)
    \/ \E call \in rtwCalls, score \in FallbackScores, creditScore \in FallbackScores :
          RtwFallbackReturn(call, score, creditScore)

SpecFailure == Init /\ [][NextFailure]_vars

\* ----------------------------------------------------------- acknowledgement
\* dispatches of one account and notifications, without the passage of time
NextAck ==
    \/ \E u \in LifecycleUsers : Register(u)
    \/ \E u \in LifecycleUsers : SubmitCheck(u, ValidBody(Ssn9), MaxAckRequests)
    \/ \E req \in inflight, resp \in ApiAnswers : McpReturn(req, resp)
    \/ \E ok \in BOOLEAN : InitializeReturn(ok)
    \/ \E p \in Payloads : HandleNotification(p)

SpecAck == Init /\ [][NextAck]_vars

\* ------------------------------------------------------------ normalisation
\* answers of the bridge: a failure, an error, results whose score lies on
\* the scale, above it and below it, and a success that carries nothing else
NormalAnswers ==
    { McpFailure,
      McpAnswer("error", Undefined, Undefined, NoScore, Undefined),
      McpAnswer("success", "wf1", "approve", JsonNumber(100), "low"),
      McpAnswer("success", "wf1", "approve", JsonNumber(100 + ScoreExcess), "low"),
      McpAnswer("success", "wf1", "decline", JsonNumber(0 - ScoreExcess), "high"),
      McpAnswer("success", Undefined, Undefined, NoScore, Undefined) }

\* the check lifecycle of one account with every kind of answer of the
\* bridge, observed through GET /api/background-checks/:id
NextNormal ==
    \/ \E u \in LifecycleUsers : Register(u)
    \/ \E u \in LifecycleUsers : SubmitCheck(u, ValidBody(Ssn9), MaxNormalRequests)
    \/ \E req \in inflight, resp \in NormalAnswers : McpReturn(req, resp)
    \/ \E ok \in BOOLEAN : InitializeReturn(ok)
    \/ \E t \in timers, score \in SimScores : FireTimer(t, score)
    \/ Tick
    \/ \E u \in LifecycleUsers, id \in QueryIds : GetCheck(u, id)

SpecNormal == Init /\ [][NextNormal]_vars

\* ------------------------------------------------------- rules of the results
RiskScores == 0..MaxRiskScore

\* finalRecommendation.overall_score: numbers on the scale 0..100 and beyond
\* it, a number written as a string, null, and no score at all
ExternalNumbers == (0 - ScoreExcess)..(100 + ScoreExcess)

ExternalScores ==
    { JsonNumber(n) : n \in ExternalNumbers } \cup {JsonString("82"), JsonNull, NoScore}

\* finalRecommendation.recommendation: the keys of the table, other letter
\* cases, other strings, and no recommendation at all
Recommendations ==
    {"approve", "approve_with_conditions", "manual_review", "decline",
     "Approve", "DECLINE", "rejected", "", "constructor", Undefined}

\* the rules of the normaliser and of the two generators, applied to every input
NextRules ==
    \/ \E score \in RiskScores : DeriveRisk(score)
    \/ \E mcpScore \in ExternalScores : CalculateScore(mcpScore)
    \/ \E rec \in Recommendations : MapStatus(rec)

SpecRules == Init /\ [][NextRules]_vars

\* --------------------------------------------------------------- rate limiter
\* req.path: two endpoints with a limit, a path below one of them, and a
\* path with no limit
RequestPaths ==
    { <<"api", "mcp", "background-check">>, <<"api", "auth", "login">>,
      <<"api", "auth", "login", "admin">>, <<"api", "dashboard", "stats">> }

Ips == {"10.0.0.1"}

\* req.user?.userId: the limiter stands before the authentication
RequestUsers == {Undefined}

\* one client sending requests through the endpoint rate limiter
NextLimiter ==
    \/ \E path \in RequestPaths, ip \in Ips, user \in RequestUsers :
          EndpointRateLimit(path, ip, user)
    \/ \E endpoint \in DOMAIN endpointLimits : AdvanceClock(endpoint)
    \/ Cleanup

SpecLimiter == Init /\ [][NextLimiter]_vars

\* ------------------------------------------------------ brute-force protection
\* the key or token of a request: valid, invalid, or missing
AuthOutcomes == {"valid", "invalid", "missing"}

\* one address sending requests through the brute-force protection
NextBrute ==
    \/ \E ip \in Ips, auth \in AuthOutcomes : BruteForceRequest(ip, auth)
    \/ \E ip \in Ips : AdvanceBruteClock(ip)
    \/ Cleanup

SpecBrute == Init /\ [][NextBrute]_vars

\* --------------------------------------------------------- health monitoring
\* the check lifecycle of server.js up to the dispatch, with the health
\* monitoring of the integration
NextMonitor ==
    \/ \E u \in LifecycleUsers : Register(u)
    \/ \E u \in LifecycleUsers : SubmitCheck(u, ValidBody(Ssn9), MaxMonitorRequests)
    \/ \E req \in inflight, resp \in ApiAnswers : McpReturn(req, resp)
    \/ \E ok \in BOOLEAN : InitializeReturn(ok)
    \/ \E resp \in ProbeAnswers : MonitorProbe(resp)
    \/ \E ok \in BOOLEAN : ReinitializeReturn(ok)

SpecMonitor == Init /\ [][NextMonitor]_vars

\* ------------------------------------------------------------------ dispatch
\* the bridge fails, answers 2xx with a null body, with an error, or with a
\* success that carries a workflow id or none
DispatchAnswers ==
    { McpFailure,
      [ok |-> TRUE, data |-> JsonNull],
      McpAnswer("error", Undefined, Undefined, NoScore, Undefined),
      McpAnswer("success", "wf1", "approve", JsonNumber(82), Undefined),
      McpAnswer("success", Undefined, "approve", JsonNumber(82), Undefined) }

\* dispatches through the bridge with every kind of answer, and the
\* notifications it sends back
NextDispatch ==
    \/ \E u \in LifecycleUsers : Register(u)
    \/ \E u \in LifecycleUsers : SubmitCheck(u, ValidBody(Ssn9), MaxDispatchRequests)
    \/ \E req \in inflight, resp \in DispatchAnswers : McpReturn(req, resp)
    \/ \E ok \in BOOLEAN : InitializeReturn(ok)
    \/ \E p \in Payloads : HandleNotification(p)

SpecDispatch == Init /\ [][NextDispatch]_vars

\* ------------------------------------------------------------------- claims
FiniteTiers == {"trial", "starter", "professional"}

\* the step admits a submission of user u: a record owned by u is pushed
Admits(u) ==
    /\ Len(backgroundChecks') = Len(backgroundChecks) + 1
    /\ backgroundChecks'[Len(backgroundChecks')].userId = u

\* C1: a finite-tier user with checksRemaining = n gets exactly n submissions
\* admitted: every admission of a finite-tier user finds checksRemaining above
\* 0 and consumes one unit of it.
C1_AdmissionConsumesQuota ==
    [][\A u \in DOMAIN users :
          (users[u].subscription \in FiniteTiers /\ Admits(u))
              => /\ users[u].checksRemaining > 0
                 /\ users'[u].checksRemaining = users[u].checksRemaining - 1]_vars

\* C2: the stored ssn of every record created by a submission shows at most
\* its last 4 characters: every character before them is the mask character.
C2_StoredSsnMasked ==
    \A i \in SubmittedIdx :
        \A k \in 1..(Len(backgroundChecks[i].ssn) - 4) : backgroundChecks[i].ssn[k] = "*"

\* C3: no two submissions of one finite-tier user that are in flight together
\* passed the quota check on the same value of checksRemaining.
C3_NoSharedQuotaValue ==
    \A r1, r2 \in inflight :
        (r1 # r2 /\ r1.user = r2.user /\ r1.tierSeen \in FiniteTiers /\ r2.tierSeen = r1.tierSeen)
            => r1.quotaSeen # r2.quotaSeen

\* C4: GET /api/background-checks/:id answers a user who owns no record of
\* that id exactly as it answers for an id no record has, and whatever it
\* returns is a record of the asking user; this holds for the answer last
\* sent and for every user and id in every state of the store.
OwnsSome(u, id) ==
    \E i \in 1..Len(backgroundChecks) :
        backgroundChecks[i].id = id /\ backgroundChecks[i].userId = u

C4_ForeignRecordNotFound ==
    /\ \A u \in Users, id \in QueryIds :
          /\ ~OwnsSome(u, id) => GetCheckResponse(u, id) = NotFoundResponse(u, id)
          /\ GetCheckResponse(u, id).code = 200 => GetCheckResponse(u, id).body.userId = u
    /\ lastGet.code = 200 => lastGet.body.userId = lastGet.user
    /\ lastGet.code = 404 => lastGet = NotFoundResponse(lastGet.user, lastGet.id)

\* user B asked for a record that exists and belongs to user A, and got 404
C4_Witness ==
    /\ lastGet.code = 404
    /\ \E i \in SubmittedIdx :
          /\ backgroundChecks[i].id = lastGet.id
          /\ backgroundChecks[i].userId # lastGet.user
          /\ backgroundChecks[i].status = "completed"

\* the id a submitted record was created with (a merge may overwrite its id)
CreatedId(i) == Uuids[i - NumSamples]

TimersOf(i) == { t \in timers : t.checkId = CreatedId(i) }

Awaited(i) == \E r \in inflight : r.idx = i

\* C5: a record is created with status processing, and every later change of
\* a record takes it from processing to a terminal status, so that a record
\* with a terminal status never changes again.
C5_OnlyTerminalMutation ==
    [][/\ \A i \in 1..Len(backgroundChecks) :
            backgroundChecks'[i] # backgroundChecks[i]
                => /\ backgroundChecks[i].status = "processing"
                   /\ backgroundChecks'[i].status \in TerminalStatuses
       /\ \A i \in (Len(backgroundChecks) + 1)..Len(backgroundChecks') :
            backgroundChecks'[i].status = "processing"]_vars

StageOrder ==
    <<"processing", "identity_verification", "credit_history_analysis",
      "public_records_search", "employment_verification", "report_generation",
      "completed">>

C7_TerminalWhenNothingPending ==
    \A i \in SubmittedIdx :
        (i \in responded /\ ~Awaited(i) /\ TimersOf(i) = {})
            => backgroundChecks[i].status \in TerminalStatuses

\* C8: the submission is answered in the step that creates the record, never
\* after waiting for the dispatch: every record in the store has its answer.
C8_AnsweredAtCreation ==
    \A i \in SubmittedIdx : i \in responded /\ ~Awaited(i)

\* C9: every result written to a record has the riskLevel its score gives
\* under the thresholds, for the simulator's results (results.overallScore,
\* results.riskLevel) and for normalized ones (score, riskLevel).
C9_RiskMatchesScore ==
    \A i \in SubmittedIdx :
        /\ backgroundChecks[i].overallScore # NoNumber
              => backgroundChecks[i].resultsRiskLevel = RiskOfScore(backgroundChecks[i].overallScore)
        /\ backgroundChecks[i].score # NoNumber
              => backgroundChecks[i].riskLevel = RiskOfScore(backgroundChecks[i].score)

\* the tracking entry of p's workflow already records a delivery of p
Applied(p) ==
    /\ delivered[p] >= 1
    /\ p.workflow_id \in DOMAIN activeWorkflows
    /\ activeWorkflows[p.workflow_id].status = p.status
    /\ activeWorkflows[p.workflow_id].recommendation = p.recommendation
    /\ activeWorkflows[p.workflow_id].completedTime # NoNumber

\* C10: delivering again a notification payload that the tracking entry of
\* its workflow already records changes neither the record store nor the
\* workflow tracking map.
C10_RedeliveryChangesNothing ==
    [][\A p \in Payloads :
          (Applied(p) /\ delivered'[p] = delivered[p] + 1)
              => UNCHANGED <<backgroundChecks, activeWorkflows>>]_vars

\* C11: the simple server's integration never fails toward its caller: every
\* answer is an envelope with success = true, and the envelope carries
\* fallback = true exactly when the orchestration request failed.
Tagged(envelope) == "fallback" \in DOMAIN envelope /\ envelope.fallback

FellBack(checks, answered, i) ==
    checks[i].mcpEnabled /\ ~checks[i].mcpProcessed /\ i \in answered

\* names under which the repository marks a fallback (rtw-integration.js:203,
\* server.js:383)
FallbackMarks == {"fallback", "mcpFallback"}

MarkedFallback(check) == \E f \in FallbackMarks \cap DOMAIN check : check[f] = TRUE

\* C12: when the dispatch of a submission fails, the submission is answered
\* 201, local processing completes the record, and the stored record is marked
\* as fallback-sourced: every answered record of a failed dispatch carries a
\* fallback mark.
C12_RecordMarkedFallback ==
    \A i \in SubmittedIdx :
        FellBack(backgroundChecks, responded, i) => MarkedFallback(backgroundChecks[i])

\* records owned by user u
OwnedIdx(checks, u) == { i \in 1..Len(checks) : checks[i].userId = u }

\* the submission endpoint has just answered user u with the quota error
DeniedNow(u) ==
    /\ lastResponse' # lastResponse
    /\ lastResponse'.code = 402
    /\ lastResponse'.user = u

\* an account on the unlimited tier holds the sentinel and passes the quota test
UnlimitedOk(user) ==
    user.subscription = "enterprise"
        => user.checksRemaining = Unlimited /\ ~QuotaDenied(user)

HasAllowance(user) == user.checksRemaining = Unlimited \/ user.checksRemaining > 0

\* C14: in every reachable user state a valid submission is admitted if and
\* only if checksRemaining is -1 or greater than 0: an admission finds the
\* allowance, a quota denial finds none.
C14_AdmittedIffAllowance ==
    [][\A u \in DOMAIN users :
          /\ Admits(u) => HasAllowance(users[u])
          /\ DeniedNow(u) => ~HasAllowance(users[u])]_vars

\* C15: a finite-tier user's checksRemaining is never below 0.
C15_FiniteQuotaNotNegative ==
    \A u \in DOMAIN users :
        users[u].subscription \in FiniteTiers => users[u].checksRemaining >= 0

\* C16: a submission denied for exhausted quota creates no record, leaves the
\* user's checksRemaining unchanged and schedules no processing; the denial
\* meets a trial account without allowance, so that a trial account never
\* owns more records than its quota.
C16_DenialChangesNothing ==
    [][/\ \A u \in DOMAIN users :
            DeniedNow(u)
                => /\ users[u].subscription = "trial" /\ users[u].checksRemaining <= 0
                   /\ UNCHANGED <<users, backgroundChecks, timers, inflight, responded,
                                  activeWorkflows>>
       /\ \A u \in DOMAIN users' :
            users'[u].subscription = "trial"
                => Cardinality(OwnedIdx(backgroundChecks', u)) <= TrialChecks]_vars

\* a trial account that used its five checks was denied the sixth
C16_Witness ==
    /\ lastResponse.code = 402
    /\ \E u \in DOMAIN users :
          /\ lastResponse.user = u
          /\ users[u].checksRemaining = 0
          /\ Cardinality(OwnedIdx(backgroundChecks, u)) = TrialChecks

\* the quota of the plans of the catalogue
PlanTable ==
    [p \in {"starter", "professional", "enterprise"} |->
        IF p = "starter" THEN StarterChecks
        ELSE IF p = "professional" THEN ProfessionalChecks
        ELSE Unlimited]

\* C19: a plan change overwrites tier and checksRemaining with the values of
\* the plan; the tier never changes while the quota keeps its old value.
C19_PlanOverwritesTierAndQuota ==
    [][\A u \in DOMAIN users :
          users'[u].subscription # users[u].subscription
              => /\ users'[u].checksRemaining # users[u].checksRemaining
                 /\ users'[u].subscription \in DOMAIN PlanTable
                       => users'[u].checksRemaining = PlanTable[users'[u].subscription]]_vars

\* the required fields a record keeps as submitted (a merge may overwrite
\* applicantName)
RequiredStored(check) ==
    /\ ~Falsy(check.email)
    /\ check.ssn # << >>
    /\ ~Falsy(check.dateOfBirth)
    /\ ~Falsy(check.checkLevel)
    /\ check.mcpProcessed \/ ~Falsy(check.applicantName)

\* C17: a submission with a required field missing or empty is rejected with
\* 400 and creates no record, in every server variant: no stored record lacks
\* a required field, the 400 answer of server.js comes with no change of the
\* store or of the quota, and the simple server answers 400 too.
C17_InvalidRejected ==
    [][/\ \A i \in SubmittedIdx : RequiredStored(backgroundChecks[i])
       /\ (lastResponse' # lastResponse /\ lastResponse'.code = 400)
              => UNCHANGED <<users, backgroundChecks, timers, inflight>>
       /\ (lastRtw'.code # 0 /\ InvalidBody(lastRtw'.request)) => lastRtw'.code = 400]_vars

\* C18: a terminal update applied to a record that already has a terminal
\* status is a no-op: no step changes a record whose status is terminal.
C18_TerminalRecordsFrozen ==
    [][\A i \in 1..Len(backgroundChecks) :
          backgroundChecks[i].status \in TerminalStatuses
              => backgroundChecks'[i] = backgroundChecks[i]]_vars

\* fields by which a result synthesized by a fallback is known
SynthesizedFields == {"fallback", "results", "success"}

\* C20: a status poll changes nothing but its own result, and when the request
\* to the orchestration dependency fails the result is an explicit error
\* status, never a synthesized fallback result.
C20_PollReadOnlyExplicitError ==
    [][lastPoll' # lastPoll
          => /\ UNCHANGED <<users, backgroundChecks, timers, now, systemStatus,
                            activeWorkflows, inflight, responded, lastResponse,
                            delivered, lastAck, lastGet, rtwCalls, rtwSent, lastRtw,
                            observerVars>>
             /\ ~lastPoll'.requestOk
                   => /\ lastPoll'.result.status = "error"
                      /\ DOMAIN lastPoll'.result \cap SynthesizedFields = {}]_vars

\* a failed poll of a workflow, with a record in the store, a tracked workflow
\* and a dispatch awaited
C20_Witness ==
    /\ lastPoll.kind = "workflow"
    /\ ~lastPoll.requestOk
    /\ lastPoll.result.status = "error"
    /\ SubmittedIdx # {}
    /\ DOMAIN activeWorkflows # {}
    /\ inflight # {}

DocumentedSections ==
    {"identityVerification", "creditAssessment", "criminalBackground",
     "employmentVerification", "rentalHistory"}

\* every documented section is present and populated
CompleteResults(results) ==
    /\ {"overallScore", "riskLevel", "recommendations"} \cup DocumentedSections
          \subseteq DOMAIN results
    /\ results.overallScore >= FallbackScoreBase
    /\ results.overallScore < FallbackScoreBase + FallbackScoreSpan
    /\ results.riskLevel \in {"low", "medium", "high"}
    /\ \A f \in DocumentedSections : DOMAIN results[f] # {}
    /\ Len(results.recommendations) > 0

\* C22: every result of the fallback generator has every documented section
\* present and a non-empty sequence of recommendations, for every applicant
\* input and every random draw: this holds for the envelope last answered and
\* for every input and draw in every state.
C22_FallbackResultsComplete ==
    /\ (lastRtw.code # 0 /\ Tagged(lastRtw.envelope))
          => CompleteResults(lastRtw.envelope.results)
    /\ \A body \in Bodies, score \in FallbackScores, creditScore \in FallbackScores :
          CompleteResults(fallbackProcessing(body, score, creditScore).results)

\* the fallback answered a submission that has no e-mail address, with the
\* highest score and the lowest credit score that can be drawn
C22_Witness ==
    /\ lastRtw.code = 200
    /\ Tagged(lastRtw.envelope)
    /\ lastRtw.request = BodyWithoutEmail
    /\ lastRtw.envelope.results.overallScore = FallbackScoreBase + FallbackScoreSpan - 1
    /\ lastRtw.envelope.results.creditAssessment.score = FallbackScoreBase
    /\ Len(lastRtw.envelope.results.recommendations) = 5

\* C23: the stage simulator and the fallback generator derive riskLevel from
\* overallScore by the same rule: for every score the two give the same level.
C23_SameRiskRule ==
    /\ lastCalc.fn = "riskLevel" => lastCalc.simulator = lastCalc.fallback
    /\ \A score \in SimScores \cup FallbackScores :
          RiskOfScore(score) = FallbackRiskOfScore(score)

\* the two rules applied to the score on the threshold of the low level
C23_Witness ==
    /\ lastCalc.fn = "riskLevel"
    /\ lastCalc.input = LowRiskMin
    /\ lastCalc.simulator = "low"
    /\ lastCalc.fallback = "low"

\* twice the distance of result from 300 + (e / 100) * 550, in halves
TwiceOff(e, result) == 2 * result - (2 * 300 + 11 * e)

\* C24: calculatePropertyVetScore maps a numeric score e of 0..100 to
\* 300 + (e / 100) * 550 rounded to the nearest integer (0 to 300, 100 to
\* 850, never decreasing in e), and a missing or non-numeric score to 650.
C24_ScoreRescaled ==
    lastCalc.fn = "calculatePropertyVetScore" =>
        IF lastCalc.input.type = "number"
        THEN LET e == lastCalc.input.value
             IN  (e >= 0 /\ e <= 100) =>
                    /\ TwiceOff(e, lastCalc.output) \in {0 - 1, 0, 1}
                    /\ e = 0 => lastCalc.output = 300
                    /\ e = 100 => lastCalc.output = 850
                    /\ e < 100 =>
                          lastCalc.output <= calculatePropertyVetScore(JsonNumber(e + 1))
        ELSE lastCalc.output = 650

\* the highest score of the scale was mapped to 850
C24_Witness ==
    /\ lastCalc.fn = "calculatePropertyVetScore"
    /\ lastCalc.input = JsonNumber(100)
    /\ lastCalc.output = 850

\* the fixed table of the statuses
StatusTable ==
    [approve |-> "approved", approve_with_conditions |-> "approved",
     manual_review |-> "flagged", decline |-> "declined"]

\* C26: mapMCPStatusToPropertyVet follows the fixed table for every input:
\* the four keys give their status, and every other input (unrecognized
\* string, different letter case, absent) gives processing.
C26_StatusTableFollowed ==
    lastCalc.fn = "mapMCPStatusToPropertyVet" =>
        lastCalc.output =
            IF lastCalc.input \in DOMAIN StatusTable
            THEN StatusTable[lastCalc.input]
            ELSE "processing"

\* C25: every score stored in a completed record lies in [300, 850], whether
\* the stage simulator wrote it (results.overallScore) or the normalisation
\* of an external score did (score), for external scores outside 0..100 too.
C25_StoredScoreInRange ==
    \A i \in SubmittedIdx :
        backgroundChecks[i].status \in TerminalStatuses =>
            /\ backgroundChecks[i].overallScore # NoNumber
                  => /\ backgroundChecks[i].overallScore >= 300
                     /\ backgroundChecks[i].overallScore <= 850
            /\ backgroundChecks[i].mcpProcessed
                  => /\ backgroundChecks[i].score >= 300
                     /\ backgroundChecks[i].score <= 850

\* values convertMCPResultToPropertyVetFormat may be applied to: null and
\* what processMCPBackgroundCheck resolves with
ConvertInputs == {JsonNull} \cup { McpResult([sentAt |-> now], resp) : resp \in NormalAnswers }

NotSuccess(mcpResult) == mcpResult = JsonNull \/ mcpResult.status # "success"

\* C27: normalisation never throws: for every input the conversion returns a
\* patch, which has status error and an error detail when the input is not a
\* success; the submission is answered 201 whatever the dispatch returned, and
\* the record stays retrievable: the owner's GET of the answered checkId
\* returns it.
C27_NormalizationNeverLosesRecord ==
    /\ \A mcpResult \in ConvertInputs :
          LET patch == convertMCPResultToPropertyVetFormat(mcpResult)
          IN  /\ "status" \in DOMAIN patch
              /\ NotSuccess(mcpResult)
                    => patch.status = "error" /\ "error" \in DOMAIN patch
    /\ lastResponse.code \in {0, 201}
    /\ \A i \in SubmittedIdx \cap responded :
          GetCheckResponse(backgroundChecks[i].userId, CreatedId(i)).code = 200

\* C28: a callback that references an unknown workflow is acknowledged with a
\* success response, never a server error, and leaves the workflow tracking
\* map and every record unchanged.
C28_UnknownWorkflowAcknowledged ==
    [][\A p \in Payloads :
          (delivered'[p] = delivered[p] + 1 /\ p.workflow_id \notin DOMAIN activeWorkflows)
              => /\ lastAck'.code = 200
                 /\ lastAck'.status = "received"
                 /\ lastAck'.workflow_id = p.workflow_id
                 /\ UNCHANGED <<activeWorkflows, backgroundChecks, users, timers,
                                inflight, responded>>]_vars

\* a callback for a workflow the integration never tracked was acknowledged
\* while another workflow is tracked and its record is stored
C28_Witness ==
    /\ lastAck.code = 200
    /\ lastAck.status = "received"
    /\ lastAck.workflow_id \in WorkflowIds \ DOMAIN activeWorkflows
    /\ DOMAIN activeWorkflows # {}
    /\ \E i \in SubmittedIdx : backgroundChecks[i].mcpProcessed

\* C29: the only failure responses of a check submission are the validation
\* error (400) and the quota error (402): every other answer is a success,
\* whatever the dispatch, the normalisation or a later step does.
C29_OnlyValidationAndQuotaFail ==
    /\ lastResponse.code \in {0, 201, 400, 402}
    /\ lastRtw.code \in {0, 200, 400, 402}

\* the submission endpoint has just answered 201
AnsweredNow ==
    lastResponse' # lastResponse /\ lastResponse'.code = 201

\* C30: GET /api/background-checks returns exactly the records owned by the
\* caller: a submission answered 201 left a record owned by its submitter,
\* no step removes a record or changes its owner (a merge of an orchestration
\* result included), and the list holds every record owned by the caller,
\* once each, and no other record.
C30_ListExactlyOwned ==
    [][/\ AnsweredNow =>
             \E i \in (NumSamples + 1)..Len(backgroundChecks') :
                 /\ CreatedId(i) = lastResponse'.checkId
                 /\ backgroundChecks'[i].userId = lastResponse'.user
       /\ Len(backgroundChecks') >= Len(backgroundChecks)
       /\ \A i \in 1..Len(backgroundChecks) :
             backgroundChecks'[i].userId = backgroundChecks[i].userId
       /\ lastList' # lastList =>
             /\ lastList'.code = 200
             /\ Len(lastList'.body) =
                   Cardinality(OwnedIdx(backgroundChecks, lastList'.user))
             /\ \A k \in 1..Len(lastList'.body) :
                   lastList'.body[k].userId = lastList'.user
             /\ \A i \in OwnedIdx(backgroundChecks, lastList'.user) :
                   \E k \in 1..Len(lastList'.body) :
                       lastList'.body[k] = backgroundChecks[i]]_vars

\* a user was listed the one record it owns, merged with an orchestration
\* result, while the store holds a record of another user
C30_Witness ==
    /\ lastList.code = 200
    /\ Len(lastList.body) = 1
    /\ lastList.body[1].mcpProcessed
    /\ lastList.body[1].userId = lastList.user
    /\ \E i \in SubmittedIdx :
          /\ backgroundChecks[i].userId # lastList.user
          /\ backgroundChecks[i] # lastList.body[1]

\* the place of a status in the stage order; the statuses the normaliser
\* writes stand with completed at its end
Rank(status) ==
    IF \E k \in 1..Len(StageOrder) : StageOrder[k] = status
    THEN CHOOSE k \in 1..Len(StageOrder) : StageOrder[k] = status
    ELSE Len(StageOrder)

\* C31: the statuses a record shows over time never move backwards in the
\* stage order, and a record that has left processing never shows processing
\* again.
C31_StatusNeverGoesBack ==
    [][\A i \in 1..Len(backgroundChecks) :
          /\ Rank(backgroundChecks'[i].status) >= Rank(backgroundChecks[i].status)
          /\ backgroundChecks[i].status # "processing"
                => backgroundChecks'[i].status # "processing"]_vars

\* C32: the id and the owner of a stored record never change, a merge of an
\* orchestration result included, so that a GET of an answered checkId by the
\* submitting user returns the record of that submission.
C32_RecordKeepsIdAndOwner ==
    [][/\ \A i \in 1..Len(backgroundChecks) :
            /\ backgroundChecks'[i].id = backgroundChecks[i].id
            /\ backgroundChecks'[i].userId = backgroundChecks[i].userId
       /\ \A i \in SubmittedIdx \cap responded :
            LET answer == GetCheckResponse(backgroundChecks[i].userId, CreatedId(i))
            IN  answer.code = 200 /\ answer.body = backgroundChecks[i]]_vars

\* the step resumes a submission after its dispatch (the handler leaves the
\* awaited ones), or runs a timer of the stage simulator (the timer leaves the
\* pending ones): a step of a request after its admission
LaterStep ==
    \/ inflight' \subseteq inflight /\ inflight' # inflight
    \/ ~(timers \subseteq timers')

\* C33: an admitted submission of a quota-limited user takes exactly 1 from
\* checksRemaining and pushes exactly one record; the later steps of the
\* request (the return of the dispatch, the fall back, the stage simulator)
\* neither change the account nor push a record.
C33_OneDecrementOneRecord ==
    [][/\ \A u \in DOMAIN users :
            (users[u].subscription \in FiniteTiers /\ Admits(u))
                => /\ users'[u].checksRemaining = users[u].checksRemaining - 1
                   /\ \A o \in DOMAIN users \ {u} : users'[o] = users[o]
       /\ Len(backgroundChecks') <= Len(backgroundChecks) + 1
       /\ LaterStep => /\ users' = users
                       /\ Len(backgroundChecks') = Len(backgroundChecks)]_vars

\* C34: no request sent to an orchestration dependency for a check carries
\* the ssn as the applicant gave it: the body sent to the MCP bridge has no
\* ssn, and an ssn in the body sent to RTW is not the one of the submission.
C34_NoRawSsnSent ==
    /\ \A r \in inflight : "ssn" \notin DOMAIN r.payload
    /\ \A call \in rtwCalls :
          (call.phase = "orchestrate" /\ "ssn" \in DOMAIN call.payload.applicant)
              => call.payload.applicant.ssn # Field(call.request, "ssn")

\* the times at which requests of a key were let through
PassesOf(key) == SelectSeq(passedLog, LAMBDA pass : pass.key = key)

\* the passes of a key in the window of its endpoint that starts at time t
InWindow(key, t) ==
    { j \in 1..Len(PassesOf(key)) :
        /\ PassesOf(key)[j].at >= t
        /\ PassesOf(key)[j].at < t + endpointLimits[key[1]].windowMs }

\* the last n elements of a sequence
LastOf(seq, n) == SubSeq(seq, Len(seq) - n + 1, Len(seq))

\* C35: for each key of an endpoint with a limit, the requests let through
\* in any window of windowMs (a window holds the instants t .. t + windowMs - 1)
\* number at most maxRequests; and the timestamps recorded for a key are
\* those of the last requests let through: a rejected request is not recorded.
C35_AtMostMaxPerWindow ==
    /\ \A i \in 1..Len(passedLog) :
          Cardinality(InWindow(passedLog[i].key, passedLog[i].at))
              <= endpointLimits[passedLog[i].key[1]].maxRequests
    /\ \A key \in DOMAIN userRateLimits :
          /\ Len(userRateLimits[key]) <= Len(PassesOf(key))
          /\ userRateLimits[key] =
                [j \in 1..Len(userRateLimits[key]) |->
                    LastOf(PassesOf(key), Len(userRateLimits[key]))[j].at]
    /\ (lastGate.gate = "endpointRateLimit" /\ lastGate.code = 429)
          => Len(PassesOf(lastGate.subject))
                >= endpointLimits[lastGate.subject[1]].maxRequests

\* a background check was rejected although more than ten had been let
\* through before: some of them when earlier ones had left the window
C35_Witness ==
    /\ lastGate.gate = "endpointRateLimit"
    /\ lastGate.code = 429
    /\ lastGate.subject[1] = <<"api", "mcp", "background-check">>
    /\ Len(PassesOf(lastGate.subject)) > BackgroundCheckMax

\* a step of a request of the address through the brute-force protection
BruteStep(ip) ==
    /\ lastGate'.gate = "bruteForce"
    /\ lastGate'.subject.ip = ip
    /\ now' = now
    /\ DOMAIN failedAttempts \subseteq DOMAIN failedAttempts'
    /\ <<lastGate, failedAttempts>>' # <<lastGate, failedAttempts>>

\* the address has ten or more recorded failures
TenFailures(ip) ==
    ip \in DOMAIN failedAttempts /\ failedAttempts[ip].count >= BruteForceMax

\* while the hour since the last failure has not passed, a request of an
\* address with ten or more failures is rejected and changes nothing
C36_RejectedWithinHour ==
    [][\A ip \in Ips :
          (/\ BruteStep(ip)
           /\ TenFailures(ip)
           /\ now - failedAttempts[ip].lastAttempt < OneHour)
          => lastGate'.code = 429 /\ failedAttempts' = failedAttempts]_vars

\* a request with a valid or a missing key, less than an hour after the last
\* failure, leaves the count as it is
C36_SuccessKeepsCount ==
    [][\A ip \in Ips :
          (/\ BruteStep(ip)
           /\ ip \in DOMAIN failedAttempts
           /\ lastGate'.subject.auth # "invalid"
           /\ now - failedAttempts[ip].lastAttempt <= OneHour)
          => failedAttempts' = failedAttempts]_vars

\* C36: an address with ten or more recorded failures is rejected (429) by
\* every request until one hour has passed since its last recorded failure,
\* and a rejected request records nothing; once the hour has passed the next
\* request passes and the count is reset to 0, so that it is 0 after the
\* request, or 1 when the request itself fails the authentication
C36_BlockedForOneHour ==
    [][\A ip \in Ips :
          (BruteStep(ip) /\ TenFailures(ip))
          => IF now - failedAttempts[ip].lastAttempt < OneHour
             THEN lastGate'.code = 429 /\ failedAttempts' = failedAttempts
             ELSE /\ lastGate'.code # 429
                  /\ failedAttempts'[ip].count =
                        IF lastGate'.subject.auth = "invalid" THEN 1 ELSE 0]_vars

\* the step admits a submission: a record is appended to the store
Admitted == Len(backgroundChecks') = Len(backgroundChecks) + 1

\* C37: a submission is routed to the orchestration path exactly when
\* systemStatus is active at that moment, and to standard processing
\* otherwise; systemStatus changes only when an initialization settles, to
\* active or error, and a systemStatus of error never changes again
C37_ErrorIsFinal ==
    [][/\ Admitted =>
             LET check == backgroundChecks'[Len(backgroundChecks')]
             IN  /\ check.mcpEnabled = (systemStatus = "active")
                 /\ (systemStatus = "active") =
                       (\E req \in inflight' \ inflight : req.checkId = check.id)
                 /\ (systemStatus # "active") =
                       (StartTimer(check.id) \in timers' \ timers)
       /\ systemStatus' # systemStatus =>
             /\ systemStatus' \in {"active", "error"}
             /\ systemStatus = "initializing" \/ monitor = "initializing"
             /\ <<users, backgroundChecks, timers, inflight, responded, activeWorkflows>>'
                   = <<users, backgroundChecks, timers, inflight, responded, activeWorkflows>>
       /\ systemStatus = "error" => systemStatus' = "error"]_vars

\* the integration was active, an initialization started by the monitoring
\* failed, and a later submission went to standard processing
C37_Witness ==
    /\ systemStatus = "error"
    /\ \E i, j \in SubmittedIdx :
          /\ i < j
          /\ backgroundChecks[i].mcpEnabled
          /\ ~backgroundChecks[j].mcpEnabled
          /\ j \in responded

\* the request to the bridge failed: rejected, or answered with a null body
DispatchFailed(resp) == ~resp.ok \/ resp.data = JsonNull

\* C38: processMCPBackgroundCheck never rejects; when the request to the
\* bridge fails it resolves with status error and fallbackRequired true and
\* leaves the map of active workflows as it is; the map gains an entry only
\* from an answer that carries a workflow_id, and it never loses one
C38_DispatchNeverRejects ==
    [][/\ \A req \in inflight, resp \in DispatchAnswers :
             LET result == McpResult(req, resp)
                 after == WorkflowsAfterDispatch(req, resp)
             IN  /\ result # Thrown
                 /\ DispatchFailed(resp) =>
                       /\ result.status = "error"
                       /\ result.fallbackRequired
                       /\ after = activeWorkflows
                 /\ after # activeWorkflows =>
                       /\ ~DispatchFailed(resp)
                       /\ resp.data.workflow_id # Undefined
                       /\ DOMAIN after = DOMAIN activeWorkflows \cup {resp.data.workflow_id}
       /\ (inflight' # inflight /\ inflight' \subseteq inflight) =>
             /\ lastResponse'.code = 201
             /\ lastResponse'.mcpEnhanced \/ lastResponse'.mcpFallback
             /\ lastResponse'.mcpFallback =>
                   /\ activeWorkflows' = activeWorkflows
                   /\ backgroundChecks' = backgroundChecks
       /\ DOMAIN activeWorkflows \subseteq DOMAIN activeWorkflows']_vars

\* a dispatch has added a workflow to the map, and a later dispatch that came
\* back with an error was answered with the fall back, the map as it was
C38_Witness ==
    /\ DOMAIN activeWorkflows # {}
    /\ inflight = {}
    /\ Cardinality(responded) = MaxDispatchRequests
    /\ lastResponse.code = 201
    /\ lastResponse.mcpFallback
====
